---- MODULE Spec2Model ----
(***************************************************************************)
(* Model of the grimoire-engine webhook pipeline: the POST /webhook/github *)
(* handler (app/api/webhook.py) and the services it drives: PRProcessor,   *)
(* MatcherService, SpellGeneratorService and create_execution_log.         *)
(*                                                                         *)
(* A worker is one request being handled.  Every action is the code that   *)
(* runs between two awaits of the handler; the relational store is shared  *)
(* by the workers and a commit is one atomic step.                         *)
(*                                                                         *)
(* Conventions for Python values: None is "" for strings, 0 for integer    *)
(* ids and numbers, <<>> for lists; a dict that may be None carries an     *)
(* isnull field.  Error-type tags are sequences of characters so that      *)
(* lower-casing and substring search are computed; free text is a sequence *)
(* of words.                                                               *)
(***************************************************************************)
EXTENDS Integers, Sequences, FiniteSets, TLC

VARIABLES
    webhook_secret,       \* os.getenv("GITHUB_WEBHOOK_SECRET"), "" when unset
    auto_create_enabled,  \* AUTO_CREATE_SPELLS in ("true", "1", "yes")
    db_users,             \* rows of table users
    db_repos,             \* rows of table repository_configs
    db_spells,            \* rows of table spells
    db_logs,              \* rows of table webhook_execution_logs, in insert order
    wk,                   \* per worker: position in the handler and its locals
    runs,                 \* per worker: requests completed so far
    probe,                \* a pure function under test: its arguments and result
    db_applications,      \* rows of table spell_applications, in insert order
    ap                    \* the POST /api/spells/{id}/apply request being handled

vars == <<webhook_secret, auto_create_enabled, db_users, db_repos, db_spells,
          db_logs, wk, runs, probe, db_applications, ap>>

Workers == {1, 2}

Min(a, b) == IF a < b THEN a ELSE b

(***************************************************************************)
(* Signature verification                                                  *)
(***************************************************************************)
ConfiguredSecret == "s3cr3t"
SigningKeys == {"s3cr3t", "0ther"}

\* hmac.new(secret, payload, sha256).hexdigest(): an ideal MAC, distinct for
\* every distinct (key, message) pair.
HmacSha256Hex(secret, payload) == <<secret, payload>>

EmptyHex == <<>>

\* A header value is absent (None) or the text prefix + hex.
SigAbsent == [present |-> FALSE, prefix |-> "", hex |-> EmptyHex]

SigTruthy(signature) ==
    signature.present /\ ~(signature.prefix = "" /\ signature.hex = EmptyHex)

\* the prefix is not looked at
validate_signature_any_prefix(payload, signature, secret) ==
    IF ~SigTruthy(signature)
    THEN FALSE
    ELSE HmacSha256Hex(secret, payload) = signature.hex

validate_signature(payload, signature, secret) ==
    IF ~SigTruthy(signature) \/ signature.prefix # "sha256="
    THEN FALSE
    ELSE HmacSha256Hex(secret, payload) = signature.hex

(***************************************************************************)
(* Request bodies and decoded JSON values                                  *)
(***************************************************************************)
RepoNames == {"octo/app", "octo/lib"}

\* value of payload["repository"]: key missing, null, a non-object, or an
\* object whose full_name is "" (no such key) or a name
RepositoryFields ==
    {[kind |-> k, full_name |-> ""] : k \in {"missing", "null", "scalar"}}
    \cup {[kind |-> "object", full_name |-> n] : n \in RepoNames \cup {""}}

\* value of payload["pull_request"]; number 0 stands for no number
PullRequestFields ==
    {[kind |-> k, number |-> 0] : k \in {"missing", "null", "scalar"}}
    \cup {[kind |-> "object", number |-> n] : n \in {0, 7}}

WellFormedPayloads ==
    [kind : {"object"}, action : {"", "opened"},
     repository : {[kind |-> "object", full_name |-> n] : n \in RepoNames},
     pull_request : {[kind |-> "object", number |-> 7]}]

\* payloads with one member missing, null or of the wrong type
DegeneratePayloads ==
    [kind : {"object"}, action : {"opened"},
     repository : RepositoryFields \ {[kind |-> "object", full_name |-> "octo/lib"]},
     pull_request : {[kind |-> "object", number |-> 7]}]
    \cup
    [kind : {"object"}, action : {"opened"},
     repository : {[kind |-> "object", full_name |-> "octo/app"]},
     pull_request : PullRequestFields]

ObjectPayloads == WellFormedPayloads \cup DegeneratePayloads

ArrayPayload ==
    [kind |-> "array", action |-> "",
     repository |-> [kind |-> "missing", full_name |-> ""],
     pull_request |-> [kind |-> "missing", number |-> 0]]

Payloads == ObjectPayloads \cup {ArrayPayload}

\* A body: are the bytes UTF-8, does the text start with "payload=" (then
\* the rest is URL-encoded), is the text JSON, and the value it decodes to.
BadUtf8Body == [utf8 |-> FALSE, form |-> FALSE, json_ok |-> FALSE, doc |-> ArrayPayload]
BadJsonBody == [utf8 |-> TRUE, form |-> FALSE, json_ok |-> FALSE, doc |-> ArrayPayload]

FormPayloads ==
    {p \in WellFormedPayloads : p.action = "opened" /\ p.repository.full_name = "octo/app"}

Bodies ==
    {BadUtf8Body, BadJsonBody}
    \cup {[utf8 |-> TRUE, form |-> FALSE, json_ok |-> TRUE, doc |-> p] : p \in Payloads}
    \cup {[utf8 |-> TRUE, form |-> TRUE, json_ok |-> TRUE, doc |-> p] : p \in FormPayloads}

\* header values: absent, empty, the digest without its prefix, a digest
\* under another key, and the right one
Signatures(body) ==
    {SigAbsent,
     [present |-> TRUE, prefix |-> "", hex |-> EmptyHex],
     [present |-> TRUE, prefix |-> "", hex |-> HmacSha256Hex(ConfiguredSecret, body)]}
    \cup {[present |-> TRUE, prefix |-> "sha256=", hex |-> HmacSha256Hex(k, body)] :
             k \in SigningKeys}

EventTypes == {"pull_request", "push", "ping"}

Requests ==
    UNION {[sig : Signatures(b), event : EventTypes, body : {b}] : b \in Bodies}

\* the requests of the concurrent specification: correctly signed
\* pull_request events that name a repository and a number
ChangeRequests ==
    {r \in Requests :
        /\ r.event = "pull_request"
        /\ r.sig = [present |-> TRUE, prefix |-> "sha256=",
                    hex |-> HmacSha256Hex(ConfiguredSecret, r.body)]
        /\ r.body.json_ok /\ ~r.body.form
        /\ r.body.doc.kind = "object"
        /\ r.body.doc.action = "opened"
        /\ r.body.doc.repository.kind = "object"
        /\ r.body.doc.repository.full_name # ""
        /\ r.body.doc.pull_request = [kind |-> "object", number |-> 7]}

NoRequest == [sig |-> SigAbsent, event |-> "", body |-> BadUtf8Body]

(***************************************************************************)
(* DiffFetcher: parsing (PRProcessor._parse_diff)                          *)
(***************************************************************************)
\* A diff is a sequence of lines; a line is whether it starts with
\* whitespace and its whitespace-separated tokens; a token is its first two
\* characters and the rest.
Tok(pre, rest) == [pre |-> pre, rest |-> rest]
Line(indent, toks) == [indent |-> indent, toks |-> toks]

DiffHeader(a, b) ==
    Line(FALSE, <<Tok("di", "ff"), Tok("--", "git"), Tok("a/", a), Tok("b/", b)>>)
HunkLine == Line(FALSE, <<Tok("@@", ""), Tok("-1", ",3"), Tok("+1", ",4"), Tok("@@", "")>>)

\* line.startswith("diff --git")
StartsWithDiffGit(line) ==
    /\ ~line.indent
    /\ Len(line.toks) >= 2
    /\ line.toks[1] = Tok("di", "ff")
    /\ line.toks[2].pre = "--"
    /\ line.toks[2].rest \in {"git", "gitx"}

RECURSIVE _parse_diff_preimage(_)
\* the path is taken from the third token, the pre-image
_parse_diff_preimage(diff) ==
    IF diff = <<>> THEN <<>>
    ELSE LET line == Head(diff)
             found == IF StartsWithDiffGit(line) /\ Len(line.toks) >= 4
                      THEN <<line.toks[3].rest>>
                      ELSE <<>>
         IN found \o _parse_diff_preimage(Tail(diff))

RECURSIVE _parse_diff(_)
_parse_diff(diff) ==
    IF diff = <<>> THEN <<>>
    ELSE LET line == Head(diff)
             found == IF StartsWithDiffGit(line) /\ Len(line.toks) >= 4
                      THEN <<line.toks[4].rest>>
                      ELSE <<>>
         IN found \o _parse_diff(Tail(diff))

EmptyDiff == <<>>
DiffPyJs == <<DiffHeader("app/main.py", "app/main.py"), HunkLine,
              DiffHeader("web/ui.js", "web/ui.js"), HunkLine,
              Line(FALSE, <<Tok("di", "ff"), Tok("--", "git")>>)>>
Diffs == {EmptyDiff, DiffPyJs}

\* what the GET of the diff can come back with
FetchOutcomes ==
    {[kind |-> "ok", diff |-> d] : d \in Diffs}
    \cup {[kind |-> k, diff |-> EmptyDiff] :
             k \in {"rate_limited", "http_error", "network_error", "unexpected"}}

\* a 403 with the rate limit exhausted taken for a response to read
fetch_pr_diff_reads_403(outcome) ==
    IF outcome.kind \in {"ok", "rate_limited"}
    THEN [available |-> TRUE, diff |-> outcome.diff]
    ELSE [available |-> FALSE, diff |-> EmptyDiff]

\* fetch_pr_diff: the text, or None (here "unavailable")
fetch_pr_diff(outcome) ==
    IF outcome.kind = "ok"
    THEN [available |-> TRUE, diff |-> outcome.diff]
    ELSE [available |-> FALSE, diff |-> EmptyDiff]

(***************************************************************************)
(* Diff-processing outcome (the dict process_pr_event returns)             *)
(***************************************************************************)
NoResult ==
    [isnull |-> TRUE, status |-> "", repo |-> "", pr_number |-> 0,
     has_files |-> FALSE, files_changed |-> <<>>, error |-> ""]
MissingFieldsResult ==
    [isnull |-> FALSE, status |-> "error", repo |-> "", pr_number |-> 0,
     has_files |-> FALSE, files_changed |-> <<>>,
     error |-> "Missing repository or PR number in payload"]
FetchFailedResult(repo, pr_number) ==
    [isnull |-> FALSE, status |-> "error", repo |-> repo, pr_number |-> pr_number,
     has_files |-> FALSE, files_changed |-> <<>>,
     error |-> "Failed to fetch PR diff"]
SuccessResult(repo, pr_number, files) ==
    [isnull |-> FALSE, status |-> "success", repo |-> repo, pr_number |-> pr_number,
     has_files |-> TRUE, files_changed |-> files, error |-> ""]

\* process_pr_event from the fetched diff on (lines 125-156)
ProcessFetched(repo, pr_number, outcome) ==
    LET got == fetch_pr_diff(outcome)
    IN IF ~got.available
       THEN FetchFailedResult(repo, pr_number)
       ELSE SuccessResult(repo, pr_number, _parse_diff(got.diff))

(***************************************************************************)
(* Text: words, lower-casing, error-type tags as character sequences       *)
(***************************************************************************)
LowerChar(c) ==
    CASE c = "P" -> "p" [] c = "R" -> "r" [] c = "C" -> "c"
      [] c = "T" -> "t" [] c = "E" -> "e" [] OTHER -> c

LowerChars(s) == [i \in 1..Len(s) |-> LowerChar(s[i])]

RECURSIVE StripLeft(_)
StripLeft(s) == IF s # <<>> /\ Head(s) = " " THEN StripLeft(Tail(s)) ELSE s

RECURSIVE StripRight(_)
StripRight(s) ==
    IF s # <<>> /\ s[Len(s)] = " " THEN StripRight(SubSeq(s, 1, Len(s) - 1)) ELSE s

Strip(s) == StripRight(StripLeft(s))

\* needle is a substring of hay
Contains(hay, needle) ==
    \E i \in 1..(Len(hay) + 1) :
        /\ i + Len(needle) - 1 <= Len(hay)
        /\ SubSeq(hay, i, i + Len(needle) - 1) = needle

PullRequestChangeT ==
    <<"P","u","l","l","R","e","q","u","e","s","t","C","h","a","n","g","e">>
TypeErrorT == <<"T","y","p","e","E","r","r","o","r">>
ErrorT == <<" ","e","r","r","o","r">>

LowerWord(w) ==
    CASE w = "Pull" -> "pull" [] w = "Repository" -> "repository"
      [] w = "PR" -> "pr" [] w = "Action" -> "action" [] w = "Files" -> "files"
      [] w = "Modified" -> "modified" [] w = "Error" -> "error"
      [] w = "Fix" -> "fix" [] w = "Handle" -> "handle"
      [] w = "Cannot" -> "cannot"
      [] OTHER -> w

LowerWords(ws) == [i \in 1..Len(ws) |-> LowerWord(ws[i])]

RepoWords(repo) ==
    CASE repo = "octo/app" -> <<"octo", "app">>
      [] repo = "octo/lib" -> <<"octo", "lib">>
      [] OTHER -> <<repo>>

PathWords(path) ==
    CASE path = "app/main.py" -> <<"app", "main", "py">>
      [] path = "web/ui.js" -> <<"web", "ui", "js">>
      [] OTHER -> <<path>>

\* file_path.split(".")[-1].lower()
PathExt(path) ==
    CASE path = "app/main.py" -> "py"
      [] path = "web/ui.js" -> "js"
      [] OTHER -> path

RECURSIVE FlattenPaths(_)
FlattenPaths(paths) ==
    IF paths = <<>> THEN <<>> ELSE PathWords(Head(paths)) \o FlattenPaths(Tail(paths))

(***************************************************************************)
(* ErrorPayloadBuilder (_construct_error_payload)                          *)
(***************************************************************************)
\* One member of an error description: missing, null, not a string, or text.
Fld(tag, text) == [tag |-> tag, text |-> text]
Str(text) == Fld("str", text)
AbsentFld == Fld("absent", <<>>)

MaxContextFiles == 5

_construct_error_payload(pr_result, webhook_payload) ==
    LET repo == IF pr_result.repo = "" THEN "unknown" ELSE pr_result.repo
        pr_number == pr_result.pr_number
        files_changed == pr_result.files_changed
        action == IF webhook_payload.action = "" THEN "unknown"
                  ELSE webhook_payload.action
        shown == SubSeq(files_changed, 1, Min(Len(files_changed), MaxContextFiles))
        context ==
            <<"Repository">> \o RepoWords(repo)
            \o <<"PR", ToString(pr_number), "Action", action,
                 "Files", "changed", ToString(Len(files_changed))>>
            \o (IF files_changed # <<>>
                THEN <<"Modified", "files">> \o FlattenPaths(shown)
                ELSE <<>>)
            \o (IF Len(files_changed) > MaxContextFiles
                THEN <<"and", ToString(Len(files_changed) - MaxContextFiles), "more">>
                ELSE <<>>)
    IN [kind |-> "mapping",
        error_type |-> Str(PullRequestChangeT),
        message |-> Str(<<"Pull", "request", action, "in">> \o RepoWords(repo)),
        context |-> Str(context)]

NoPayload == [kind |-> "none", error_type |-> AbsentFld,
              message |-> AbsentFld, context |-> AbsentFld]

(***************************************************************************)
(* ExecutionAuditor: status derivation (_determine_status)                 *)
(***************************************************************************)
\* an Optional[str]: None, or a text that may be empty
NoMessage == [isnull |-> TRUE, text |-> ""]
Message(text) == [isnull |-> FALSE, text |-> text]

\* the status of the outcome is not looked at
_determine_status_message_only(pr_processing_result, matched_spells, error_message) ==
    IF ~error_message.isnull /\ error_message.text # "" THEN "error"
    ELSE IF matched_spells = <<>> THEN "partial_success"
    ELSE "success"

_determine_status(pr_processing_result, matched_spells, error_message) ==
    IF ~error_message.isnull /\ error_message.text # "" THEN "error"
    ELSE IF ~pr_processing_result.isnull /\ pr_processing_result.status = "error"
         THEN "error"
    ELSE IF matched_spells = <<>> THEN "partial_success"
    ELSE "success"

(***************************************************************************)
(* MatchingEngine (MatcherService)                                         *)
(***************************************************************************)
StopWords ==
    {"a", "an", "and", "are", "as", "at", "be", "by", "for", "from", "has",
     "he", "in", "is", "it", "its", "of", "on", "that", "the", "to", "was",
     "will", "with"}

MinKeywordLen == 2

\* _extract_keywords on text given as its words (re.findall(r'\b\w+\b'))
_extract_keywords(words) ==
    {LowerWord(words[i]) : i \in {j \in 1..Len(words) :
        /\ LowerWord(words[j]) \notin StopWords
        /\ Len(LowerWord(words[j])) > MinKeywordLen}}

\* error_payload.get(k, "").lower().strip() raises AttributeError when
\* error_payload has no .get or the member is not a string
ExtractRaises(error_payload) ==
    \/ error_payload.kind # "mapping"
    \/ \E f \in {error_payload.error_type, error_payload.message,
                 error_payload.context} : f.tag \in {"null", "number"}

_extract_error_characteristics(error_payload) ==
    [error_type |-> Strip(LowerChars(error_payload.error_type.text)),
     message |-> LowerWords(error_payload.message.text),
     context |-> LowerWords(error_payload.context.text)]

NoCharacteristics == [error_type |-> <<>>, message |-> <<>>, context |-> <<>>]

\* bool(error_payload): None, "" and {} are falsy
PayloadTruthy(error_payload) ==
    \/ error_payload.kind = "scalar"
    \/ /\ error_payload.kind = "mapping"
       /\ \E f \in {error_payload.error_type, error_payload.message,
                    error_payload.context} : f.tag # "absent"

\* the except clause of match_spells (lines 182-189) evaluates
\* list(error_payload.keys()) if error_payload else None
HandlerRaises(error_payload) ==
    PayloadTruthy(error_payload) /\ error_payload.kind # "mapping"

MatchResult(raised, ids) == [raised |-> raised, ids |-> ids]

\* what match_spells does once an exception reaches its except clause
MatchFailed(error_payload) ==
    IF HandlerRaises(error_payload)
    THEN MatchResult(TRUE, <<>>)
    ELSE MatchResult(FALSE, <<>>)

RECURSIVE Like(_, _)
\* SQL LIKE: in the pattern % stands for any run of characters and _ for
\* any one character; ilike passes error_type into the pattern as it is
Like(text, pattern) ==
    IF pattern = <<>> THEN text = <<>>
    ELSE IF Head(pattern) = "%"
    THEN Like(text, Tail(pattern)) \/ (text # <<>> /\ Like(Tail(text), pattern))
    ELSE /\ text # <<>>
         /\ Head(pattern) = "_" \/ Head(pattern) = Head(text)
         /\ Like(Tail(text), Tail(pattern))

\* like instead of ilike: the case of the tag counts
TypeMatchesCaseSensitive(spell, error_type) ==
    \/ error_type = <<>>
    \/ Like(spell.error_type, <<"%">> \o error_type \o <<"%">>)

\* Spell.error_type.ilike('%' + error_type + '%'); every spell if empty
TypeMatches(spell, error_type) ==
    \/ error_type = <<>>
    \/ Like(LowerChars(spell.error_type),
            <<"%">> \o LowerChars(error_type) \o <<"%">>)

RECURSIVE ById(_)
\* rows in the order the store returns them (by primary key)
ById(rows) ==
    IF rows = {} THEN <<>>
    ELSE LET first == CHOOSE r \in rows : \A q \in rows : r.id <= q.id
         IN <<first>> \o ById(rows \ {first})

TypeCandidates(spells, error_type) ==
    ById({s \in spells : TypeMatches(s, error_type)})

RepoCandidates(spells, repos, error_type, repo_name) ==
    ById({s \in spells :
            /\ TypeMatches(s, error_type)
            /\ \E r \in repos : r.id = s.repository_id /\ r.repo_name = repo_name})

\* scores are fractions <<numerator, denominator>>; base + 0.2 boost,
\* capped at 1.0: (5m + t) / 5t
BoostNum == 1
BoostDen == 5

\* without the min of line 406
_compute_similarity_unclamped(error, spell) ==
    LET error_keywords == _extract_keywords(error.message \o error.context)
        spell_keywords == _extract_keywords(spell.description \o spell.error_pattern)
        m == Cardinality(error_keywords \cap spell_keywords)
        t == Cardinality(error_keywords \cup spell_keywords)
        boost == /\ error.error_type # <<>>
                 /\ LowerChars(spell.error_type) = error.error_type
    IN IF error_keywords = {} \/ spell_keywords = {}
       THEN <<0, 1>>
       ELSE <<BoostDen * m + (IF boost THEN BoostNum * t ELSE 0), BoostDen * t>>

\* without the early return of lines 386-388
_compute_similarity_no_early_return(error, spell) ==
    LET error_keywords == _extract_keywords(error.message \o error.context)
        spell_keywords == _extract_keywords(spell.description \o spell.error_pattern)
        m == Cardinality(error_keywords \cap spell_keywords)
        total == Cardinality(error_keywords \cup spell_keywords)
        t == IF total = 0 THEN 1 ELSE total
        boost == /\ error.error_type # <<>>
                 /\ LowerChars(spell.error_type) = error.error_type
        num == BoostDen * m + (IF boost THEN BoostNum * t ELSE 0)
        den == BoostDen * t
    IN <<Min(num, den), den>>

_compute_similarity(error, spell) ==
    LET error_keywords == _extract_keywords(error.message \o error.context)
        spell_keywords == _extract_keywords(spell.description \o spell.error_pattern)
        m == Cardinality(error_keywords \cap spell_keywords)
        t == Cardinality(error_keywords \cup spell_keywords)
        boost == /\ error.error_type # <<>>
                 /\ LowerChars(spell.error_type) = error.error_type
        num == BoostDen * m + (IF boost THEN BoostNum * t ELSE 0)
        den == BoostDen * t
    IN IF error_keywords = {} \/ spell_keywords = {}
       THEN <<0, 1>>
       ELSE <<Min(num, den), den>>

ScoreLess(a, b) == a[1] * b[2] < b[1] * a[2]

RECURSIVE InsertDescUnstable(_, _)
\* insert x in front of the entries with the same score
InsertDescUnstable(sorted, x) ==
    IF sorted = <<>> THEN <<x>>
    ELSE IF ~ScoreLess(x.score, Head(sorted).score)
         THEN <<x>> \o sorted
         ELSE <<Head(sorted)>> \o InsertDescUnstable(Tail(sorted), x)

RECURSIVE InsertDesc(_, _)
\* insert x behind every entry whose score is not less than x's
InsertDesc(sorted, x) ==
    IF sorted = <<>> THEN <<x>>
    ELSE IF ScoreLess(Head(sorted).score, x.score)
         THEN <<x>> \o sorted
         ELSE <<Head(sorted)>> \o InsertDesc(Tail(sorted), x)

RECURSIVE SortDesc(_)
\* list.sort(key=score, reverse=True): stable
SortDesc(scored) ==
    IF scored = <<>> THEN <<>>
    ELSE InsertDesc(SortDesc(SubSeq(scored, 1, Len(scored) - 1)), scored[Len(scored)])

\* lines 151-180 of match_spells: score, sort, project the identifiers
RankCandidates(error, candidates) ==
    LET scored == [i \in 1..Len(candidates) |->
                     [id |-> candidates[i].id,
                      score |-> _compute_similarity(error, candidates[i])]]
        ranked == SortDesc(scored)
    IN [i \in 1..Len(ranked) |-> ranked[i].id]

(***************************************************************************)
(* GenerationFallback helpers (SpellGeneratorService, LLMService)          *)
(***************************************************************************)
SystemUsername == "system-auto-generator"
SystemEmail == "system@grimoire.local"

FallbackConfidence == 20
LlmConfidence == 85

\* LLMService._fallback_content
_fallback_content(error_payload) ==
    [title |-> <<"Fix">>,
     description |-> <<"Error">> \o error_payload.message.text
                     \o <<"auto", "generated", "without", "LLM", "assistance">>,
     solution_code |-> "# TODO: Add solution code",
     confidence_score |-> FallbackConfidence]

LlmContent ==
    [title |-> <<"Handle", "pull", "request", "change">>,
     description |-> <<"Handle", "pull", "request", "change", "safely">>,
     solution_code |-> "pass",
     confidence_score |-> LlmConfidence]

NoContent ==
    [title |-> <<>>, description |-> <<>>, solution_code |-> "", confidence_score |-> 0]

\* generate_spell_content: the provider's answer, or the template when the
\* provider is unreachable or not configured
generate_spell_content(outcome, error_payload) ==
    IF outcome = "llm" THEN LlmContent ELSE _fallback_content(error_payload)

IsInteger(word) == \E n \in 0..9 : word = ToString(n)

\* _extract_error_pattern: integers become \d+, no message gives .*
_extract_error_pattern(error_payload) ==
    LET message == error_payload.message.text
    IN IF message = <<>> THEN <<".*">>
       ELSE [i \in 1..Len(message) |->
                IF IsInteger(message[i]) THEN "\\d+" ELSE message[i]]

KnownExtensions == {"py", "js", "ts", "java", "go", "rb", "php", "cpp", "c"}

\* _generate_tags: the members of the sorted, comma-joined set
_generate_tags(error_payload, pr_context) ==
    [type_tag |-> LowerChars(error_payload.error_type.text),
     extensions |-> {PathExt(pr_context.files_changed[i]) :
                        i \in {j \in 1..Len(pr_context.files_changed) :
                                 PathExt(pr_context.files_changed[j]) \in KnownExtensions}},
     auto_generated |-> TRUE]

NextId(rows) == Cardinality(rows) + 1

\* the repository reference is not passed on to the record
NewSpellUnlinked(id, content, error_payload, pr_context, repository_id) ==
    [id |-> id,
     title |-> content.title,
     description |-> content.description,
     error_type |-> error_payload.error_type.text,
     error_pattern |-> _extract_error_pattern(error_payload),
     solution_code |-> content.solution_code,
     tags |-> _generate_tags(error_payload, pr_context),
     repository_id |-> 0,
     auto_generated |-> 1,
     confidence_score |-> content.confidence_score,
     human_reviewed |-> 0]

NewSpell(id, content, error_payload, pr_context, repository_id) ==
    [id |-> id,
     title |-> content.title,
     description |-> content.description,
     error_type |-> error_payload.error_type.text,
     error_pattern |-> _extract_error_pattern(error_payload),
     solution_code |-> content.solution_code,
     tags |-> _generate_tags(error_payload, pr_context),
     repository_id |-> repository_id,
     auto_generated |-> 1,
     confidence_score |-> content.confidence_score,
     human_reviewed |-> 0]

HumanSpell(id, error_type, description, error_pattern, repository_id) ==
    [id |-> id,
     title |-> <<"manual">>,
     description |-> description,
     error_type |-> error_type,
     error_pattern |-> error_pattern,
     solution_code |-> "fix",
     tags |-> [type_tag |-> <<>>, extensions |-> {}, auto_generated |-> FALSE],
     repository_id |-> repository_id,
     auto_generated |-> 0,
     confidence_score |-> 0,
     human_reviewed |-> 0]

(***************************************************************************)
(* Responses and the locals of one request                                 *)
(***************************************************************************)
NoResponse ==
    [code |-> 0, detail |-> "", status |-> "", event |-> "", action |-> "",
     pr_processing |-> NoResult, matched_spells |-> <<>>,
     auto_generated_spell_id |-> 0]

\* raise HTTPException(status_code, detail); an exception nothing catches
\* reaches the framework, which answers 500
Rejection(code, detail) == [NoResponse EXCEPT !.code = code, !.detail = detail]

\* the dict returned at lines 562-569
SuccessResponse(event, action, pr_processing_result, matched_spells, spell_id) ==
    [code |-> 200, detail |-> "", status |-> "success", event |-> event,
     action |-> action, pr_processing |-> pr_processing_result,
     matched_spells |-> matched_spells, auto_generated_spell_id |-> spell_id]

ZeroCalls == [fetch |-> 0, match |-> 0, generate |-> 0, llm |-> 0, audit |-> 0]

NoGeneration ==
    [created_user |-> FALSE, created_repo |-> FALSE, created_spell |-> FALSE,
     failed_step |-> "", provider_failed |-> FALSE, race |-> FALSE,
     returned |-> FALSE, raised |-> FALSE]

NoAudit ==
    [outcome |-> "", raised |-> FALSE, lookup_failed |-> FALSE, log_id |-> 0,
     repo_config_id |-> 0]

IdleWorker ==
    [pc |-> "idle", caller |-> "webhook", req |-> NoRequest,
     payload |-> ArrayPayload,
     fetched |-> "",
     pr_processing_result |-> NoResult,
     error_payload |-> NoPayload,
     characteristics |-> NoCharacteristics,
     match_result |-> MatchResult(FALSE, <<>>),
     matched_spells |-> <<>>,
     auto_generated_spell_id |-> 0,
     repository_id |-> 0, system_user_id |-> 0, content |-> NoContent,
     generation |-> NoGeneration,
     audit |-> NoAudit,
     calls |-> ZeroCalls,
     response |-> NoResponse]

ChangeEventTypes == {"push", "pull_request"}

\* payload.get(key, {}).get(...) raises AttributeError when the member is
\* present and is not an object
MemberGetRaises(member) == member.kind \in {"null", "scalar"}

(***************************************************************************)
(* Initial stores                                                          *)
(***************************************************************************)
Alice == [id |-> 1, username |-> "alice", email |-> "alice@example.com"]
AppRepo == [id |-> 1, repo_name |-> "octo/app", enabled |-> TRUE, user_id |-> 1]

TypeErrorSpell ==
    HumanSpell(1, TypeErrorT, <<"cannot", "read", "property">>, <<"undefined", "property">>, 1)
ChangeSpell ==
    HumanSpell(1, PullRequestChangeT, <<"Pull", "request", "opened", "octo", "app">>,
               <<"request", "opened">>, 1)
GlobalSpell ==
    HumanSpell(2, PullRequestChangeT, <<"Pull", "request", "review">>, <<"lib">>, 0)

InitStores ==
    {[users |-> {}, repos |-> {}, spells |-> {}],
     [users |-> {Alice}, repos |-> {AppRepo}, spells |-> {}],
     [users |-> {Alice}, repos |-> {AppRepo}, spells |-> {TypeErrorSpell}],
     [users |-> {Alice}, repos |-> {AppRepo}, spells |-> {ChangeSpell, GlobalSpell}]}

NoProbe == [op |-> "", done |-> FALSE]

\* no apply request is being handled
NoApply == [pc |-> "idle"]

Init ==
    /\ webhook_secret \in {"", ConfiguredSecret}
    /\ auto_create_enabled \in BOOLEAN
    /\ \E st \in InitStores :
          /\ db_users = st.users
          /\ db_repos = st.repos
          /\ db_spells = st.spells
    /\ db_logs = <<>>
    /\ wk = [w \in Workers |-> IdleWorker]
    /\ runs = [w \in Workers |-> 0]
    /\ db_applications = <<>>
    /\ ap = NoApply
    /\ probe = NoProbe

UNCHANGED_env == UNCHANGED <<webhook_secret, auto_create_enabled, probe, ap>>
UNCHANGED_db == UNCHANGED <<db_users, db_repos, db_spells, db_logs, db_applications>>

(***************************************************************************)
(* github_webhook, lines 276-363: the checks before the pipeline           *)
(***************************************************************************)
\* the signature header is looked at before the secret
github_webhook_entry_header_first(me, req, secret) ==
    LET doc == req.body.doc
        reject(code, detail) ==
            [me EXCEPT !.pc = "done", !.req = req,
                       !.response = Rejection(code, detail)]
    IN IF ~SigTruthy(req.sig)
       THEN reject(401, "Missing signature header")
       ELSE IF secret = ""
       THEN reject(500, "Webhook secret not configured")
       ELSE IF ~req.body.utf8
       THEN reject(400, "Invalid UTF-8 encoding in request body")
       ELSE IF ~req.body.json_ok
       THEN reject(400, "Invalid JSON payload")
       ELSE IF doc.kind # "object" \/ MemberGetRaises(doc.repository)
       THEN reject(500, "Internal Server Error")
       ELSE IF req.event \in ChangeEventTypes
       THEN IF MemberGetRaises(doc.pull_request)
            THEN reject(500, "Internal Server Error")
            ELSE [me EXCEPT !.pc = "process", !.req = req, !.payload = doc]
       ELSE [me EXCEPT !.pc = "audit", !.req = req, !.payload = doc]

github_webhook_entry(me, req, secret) ==
    LET doc == req.body.doc
        reject(code, detail) ==
            [me EXCEPT !.pc = "done", !.req = req,
                       !.response = Rejection(code, detail)]
    IN IF secret = ""
       THEN reject(500, "Webhook secret not configured")
       ELSE IF ~SigTruthy(req.sig)
       THEN reject(401, "Missing signature header")
       \* lines 300-313, the validate_signature check, are commented out
       ELSE IF ~req.body.utf8
       THEN reject(400, "Invalid UTF-8 encoding in request body")
       ELSE IF ~req.body.json_ok
       THEN reject(400, "Invalid JSON payload")
       \* lines 342-349: payload.get("action"),
       \* payload.get("repository", {}).get("full_name")
       ELSE IF doc.kind # "object" \/ MemberGetRaises(doc.repository)
       THEN reject(500, "Internal Server Error")
       ELSE IF req.event \in ChangeEventTypes
       THEN \* line 363: payload.get("pull_request", {}).get("number", 0)
            IF MemberGetRaises(doc.pull_request)
            THEN reject(500, "Internal Server Error")
            ELSE [me EXCEPT !.pc = "process", !.req = req, !.payload = doc]
       ELSE [me EXCEPT !.pc = "audit", !.req = req, !.payload = doc]

\* a request arrives at worker w
Accept(w, requests) ==
    /\ wk[w].pc = "idle"
    /\ \E req \in requests :
          wk' = [wk EXCEPT ![w] = github_webhook_entry(wk[w], req, webhook_secret)]
    /\ UNCHANGED runs /\ UNCHANGED_env /\ UNCHANGED_db

\* any request, once per worker
Receive(w) == runs[w] = 0 /\ Accept(w, Requests)

\* a correctly signed change event, once per worker
ReceiveChange(w) == runs[w] = 0 /\ Accept(w, ChangeRequests)

(***************************************************************************)
(* PRProcessor.process_pr_event                                            *)
(***************************************************************************)
\* what github_webhook does with the outcome (lines 372-384)
AfterProcess(me, result) ==
    IF result.status = "success"
    THEN [me EXCEPT !.pc = "match",
                    !.pr_processing_result = result,
                    !.error_payload = _construct_error_payload(result, me.payload)]
    ELSE [me EXCEPT !.pc = "audit", !.pr_processing_result = result]

ProcessPR(w) ==
    LET me == wk[w]
        repo == me.payload.repository.full_name
        pr_number == me.payload.pull_request.number
    IN /\ me.pc = "process"
       /\ wk' = [wk EXCEPT ![w] =
                    IF repo = "" \/ pr_number = 0
                    THEN AfterProcess(me, MissingFieldsResult)
                    ELSE [me EXCEPT !.pc = "fetch"]]
       /\ UNCHANGED runs /\ UNCHANGED_env /\ UNCHANGED_db

\* a fetch that came back unavailable is issued once more
FetchDiffRetries(w) ==
    LET me == wk[w]
        repo == me.payload.repository.full_name
        pr_number == me.payload.pull_request.number
    IN /\ me.pc = "fetch"
       /\ \E outcome \in FetchOutcomes :
             wk' = [wk EXCEPT ![w] =
                       IF outcome.kind # "ok" /\ me.calls.fetch = 0
                       THEN [me EXCEPT !.calls.fetch = @ + 1]
                       ELSE AfterProcess([me EXCEPT !.calls.fetch = @ + 1,
                                                    !.fetched = outcome.kind],
                                         ProcessFetched(repo, pr_number, outcome))]
       /\ UNCHANGED runs /\ UNCHANGED_env /\ UNCHANGED_db

FetchDiff(w) ==
    LET me == wk[w]
        repo == me.payload.repository.full_name
        pr_number == me.payload.pull_request.number
    IN /\ me.pc = "fetch"
       /\ \E outcome \in FetchOutcomes :
             wk' = [wk EXCEPT ![w] =
                       AfterProcess([me EXCEPT !.calls.fetch = @ + 1,
                                               !.fetched = outcome.kind],
                                    ProcessFetched(repo, pr_number, outcome))]
       /\ UNCHANGED runs /\ UNCHANGED_env /\ UNCHANGED_db

(***************************************************************************)
(* MatcherService.match_spells, one action per database round trip         *)
(***************************************************************************)
\* match_spells is over: a direct caller gets the result; github_webhook
\* (lines 405-463) keeps a non-empty list, swallows an exception, and goes
\* on to generation when the list is empty
FinishMatch(me, result) ==
    IF me.caller = "direct"
    THEN [me EXCEPT !.pc = "returned", !.match_result = result]
    ELSE IF result.raised
    THEN [me EXCEPT !.pc = "audit", !.match_result = result]
    ELSE IF result.ids # <<>>
    THEN [me EXCEPT !.pc = "audit", !.match_result = result,
                    !.matched_spells = result.ids]
    ELSE [me EXCEPT !.pc = "gen_init", !.match_result = result]

\* lines 151-189 once the candidates are known
ScoreAndRank(me, candidates, scoring_ok) ==
    IF candidates = <<>>
    THEN FinishMatch(me, MatchResult(FALSE, <<>>))
    ELSE IF scoring_ok
    THEN FinishMatch(me, MatchResult(FALSE, RankCandidates(me.characteristics, candidates)))
    ELSE FinishMatch(me, MatchFailed(me.error_payload))

MatchStart(w) ==
    LET me == [wk[w] EXCEPT !.calls.match = @ + 1]
        ctx == me.pr_processing_result
    IN /\ wk[w].pc = "match"
       /\ wk' = [wk EXCEPT ![w] =
                    IF ExtractRaises(me.error_payload)
                    THEN FinishMatch(me, MatchFailed(me.error_payload))
                    ELSE [me EXCEPT
                            !.characteristics =
                                _extract_error_characteristics(me.error_payload),
                            !.pc = IF ~ctx.isnull /\ ctx.repo # ""
                                   THEN "match_repo_query"
                                   ELSE "match_all_query"]]
       /\ UNCHANGED runs /\ UNCHANGED_env /\ UNCHANGED_db

\* _query_candidate_spells, the repository-restricted query (lines 281-303)
MatchRepoQuery(w) ==
    LET me == wk[w]
        found == RepoCandidates(db_spells, db_repos, me.characteristics.error_type,
                                me.pr_processing_result.repo)
    IN /\ me.pc = "match_repo_query"
       /\ \E query_ok \in BOOLEAN, scoring_ok \in BOOLEAN :
             wk' = [wk EXCEPT ![w] =
                       IF ~query_ok
                       THEN FinishMatch(me, MatchResult(FALSE, <<>>))
                       ELSE IF found = <<>>
                       THEN [me EXCEPT !.pc = "match_all_query"]
                       ELSE ScoreAndRank(me, found, scoring_ok)]
       /\ UNCHANGED runs /\ UNCHANGED_env /\ UNCHANGED_db

\* _query_candidate_spells, the unrestricted query (lines 305-322)
MatchAllQuery(w) ==
    LET me == wk[w]
        found == TypeCandidates(db_spells, me.characteristics.error_type)
    IN /\ me.pc = "match_all_query"
       /\ \E query_ok \in BOOLEAN, scoring_ok \in BOOLEAN :
             wk' = [wk EXCEPT ![w] =
                       IF ~query_ok
                       THEN FinishMatch(me, MatchResult(FALSE, <<>>))
                       ELSE ScoreAndRank(me, found, scoring_ok)]
       /\ UNCHANGED runs /\ UNCHANGED_env /\ UNCHANGED_db

(***************************************************************************)
(* SpellGeneratorService.generate_spell, one action per round trip         *)
(***************************************************************************)
\* the identifier is kept and the matched list is left as matching gave it
GenReturnKeepsMatched(me, spell_id, failed_step) ==
    [me EXCEPT !.pc = "audit",
               !.auto_generated_spell_id = spell_id,
               !.generation.returned = TRUE,
               !.generation.failed_step = failed_step]

\* generate_spell returns spell_id (0 for None); github_webhook lines 437-452
GenReturn(me, spell_id, failed_step) ==
    [me EXCEPT !.pc = "audit",
               !.auto_generated_spell_id = spell_id,
               !.matched_spells = IF spell_id # 0 THEN <<spell_id>> ELSE @,
               !.generation.returned = TRUE,
               !.generation.failed_step = failed_step]

\* generate_spell without the check of auto_create_enabled
GenInitIgnoresFlag(w) ==
    LET me == wk[w]
        called == [me EXCEPT !.calls.generate = @ + 1]
        ctx == me.pr_processing_result
    IN /\ me.pc = "gen_init"
       /\ wk' = [wk EXCEPT ![w] =
                    IF ctx.isnull \/ ctx.repo = ""
                    THEN GenReturn(called, 0, "no_repository")
                    ELSE [called EXCEPT !.pc = "gen_repo_lookup"]]
       /\ UNCHANGED runs /\ UNCHANGED_env /\ UNCHANGED_db

\* SpellGeneratorService(db), then generate_spell up to its first await
GenInit(w) ==
    LET me == wk[w]
        called == [me EXCEPT !.calls.generate = @ + 1]
        ctx == me.pr_processing_result
    IN /\ me.pc = "gen_init"
       /\ \E constructed \in BOOLEAN :
             wk' = [wk EXCEPT ![w] =
                       IF ~constructed
                       THEN \* the constructor raised: except clause, line 454
                            [me EXCEPT !.pc = "audit",
                                       !.generation.failed_step = "constructor"]
                       ELSE IF ~auto_create_enabled
                       THEN GenReturn(called, 0, "")
                       ELSE IF ctx.isnull \/ ctx.repo = ""
                       THEN GenReturn(called, 0, "no_repository")
                       ELSE [called EXCEPT !.pc = "gen_repo_lookup"]]
       /\ UNCHANGED runs /\ UNCHANGED_env /\ UNCHANGED_db

\* _get_or_create_repository: the lookup by name (lines 272-280)
GenRepoLookup(w) ==
    LET me == wk[w]
        hits == {r \in db_repos : r.repo_name = me.pr_processing_result.repo}
    IN /\ me.pc = "gen_repo_lookup"
       /\ \E query_ok \in BOOLEAN :
             wk' = [wk EXCEPT ![w] =
                       IF ~query_ok
                       THEN GenReturn(me, 0, "repo_lookup")
                       ELSE IF hits # {}
                       THEN [me EXCEPT !.pc = "gen_llm",
                                       !.repository_id = (CHOOSE r \in hits : TRUE).id]
                       ELSE [me EXCEPT !.pc = "gen_user_lookup"]]
       /\ UNCHANGED runs /\ UNCHANGED_env /\ UNCHANGED_db

\* _get_or_create_system_user: the lookup by username (lines 339-347)
GenUserLookup(w) ==
    LET me == wk[w]
        hits == {u \in db_users : u.username = SystemUsername}
    IN /\ me.pc = "gen_user_lookup"
       /\ \E query_ok \in BOOLEAN :
             wk' = [wk EXCEPT ![w] =
                       IF ~query_ok
                       THEN GenReturn(me, 0, "user_lookup")
                       ELSE IF hits # {}
                       THEN [me EXCEPT !.pc = "gen_repo_insert",
                                       !.system_user_id = (CHOOSE u \in hits : TRUE).id]
                       ELSE [me EXCEPT !.pc = "gen_user_insert"]]
       /\ UNCHANGED runs /\ UNCHANGED_env /\ UNCHANGED_db

\* users.email is unique (models/user.py line 28)
UserInsertConflicts(users, email) == \E u \in users : u.email = email

\* _get_or_create_system_user: add and commit (lines 350-370)
GenUserInsert(w) ==
    LET me == wk[w]
        id == NextId(db_users)
    IN /\ me.pc = "gen_user_insert"
       /\ \E commit_ok \in BOOLEAN :
             IF UserInsertConflicts(db_users, SystemEmail)
             THEN /\ wk' = [wk EXCEPT ![w] = GenReturn(me, 0, "user_conflict")]
                  /\ UNCHANGED db_users
             ELSE IF ~commit_ok
             THEN /\ wk' = [wk EXCEPT ![w] = GenReturn(me, 0, "user_insert")]
                  /\ UNCHANGED db_users
             ELSE /\ db_users' = db_users \cup
                        {[id |-> id, username |-> SystemUsername, email |-> SystemEmail]}
                  /\ wk' = [wk EXCEPT ![w] =
                               [me EXCEPT !.pc = "gen_repo_insert",
                                          !.system_user_id = id,
                                          !.generation.created_user = TRUE]]
       /\ UNCHANGED <<db_repos, db_spells, db_logs, runs, db_applications>> /\ UNCHANGED_env

\* repository_configs.repo_name is unique (models/repository_config.py line 28)
RepoInsertConflicts(repos, repo_name) == \E r \in repos : r.repo_name = repo_name

\* on the uniqueness violation, read the other run's row and carry on
GenRepoInsertRereads(w) ==
    LET me == wk[w]
        id == NextId(db_repos)
        repo_name == me.pr_processing_result.repo
        hits == {r \in db_repos : r.repo_name = repo_name}
    IN /\ me.pc = "gen_repo_insert"
       /\ IF hits # {}
          THEN /\ wk' = [wk EXCEPT ![w] =
                            [me EXCEPT !.pc = "gen_llm",
                                       !.generation.race = TRUE,
                                       !.repository_id = (CHOOSE r \in hits : TRUE).id]]
               /\ UNCHANGED db_repos
          ELSE /\ db_repos' = db_repos \cup
                     {[id |-> id, repo_name |-> repo_name, enabled |-> TRUE,
                       user_id |-> me.system_user_id]}
               /\ wk' = [wk EXCEPT ![w] =
                            [me EXCEPT !.pc = "gen_llm",
                                       !.repository_id = id,
                                       !.generation.created_repo = TRUE]]
       /\ UNCHANGED <<db_users, db_spells, db_logs, runs, db_applications>> /\ UNCHANGED_env

\* _get_or_create_repository: add and commit (lines 289-319); the
\* IntegrityError is re-raised into the except clause of line 321
GenRepoInsert(w) ==
    LET me == wk[w]
        id == NextId(db_repos)
        repo_name == me.pr_processing_result.repo
    IN /\ me.pc = "gen_repo_insert"
       /\ \E commit_ok \in BOOLEAN :
             IF RepoInsertConflicts(db_repos, repo_name)
             THEN /\ wk' = [wk EXCEPT ![w] =
                               GenReturn([me EXCEPT !.generation.race = TRUE],
                                         0, "repo_conflict")]
                  /\ UNCHANGED db_repos
             ELSE IF ~commit_ok
             THEN /\ wk' = [wk EXCEPT ![w] = GenReturn(me, 0, "repo_insert")]
                  /\ UNCHANGED db_repos
             ELSE /\ db_repos' = db_repos \cup
                        {[id |-> id, repo_name |-> repo_name, enabled |-> TRUE,
                          user_id |-> me.system_user_id]}
                  /\ wk' = [wk EXCEPT ![w] =
                               [me EXCEPT !.pc = "gen_llm",
                                          !.repository_id = id,
                                          !.generation.created_repo = TRUE]]
       /\ UNCHANGED <<db_users, db_spells, db_logs, runs, db_applications>> /\ UNCHANGED_env

\* the provider answers, or it is unreachable or not configured
LlmOutcomes == {"llm", "unavailable"}

\* the provider call (line 129) and the derivations of lines 135-138
GenLLM(w) ==
    LET me == [wk[w] EXCEPT !.calls.llm = @ + 1]
    IN /\ wk[w].pc = "gen_llm"
       /\ \E outcome \in LlmOutcomes :
             wk' = [wk EXCEPT ![w] =
                       [me EXCEPT
                          !.pc = "gen_spell_insert",
                          !.generation.provider_failed = (outcome # "llm"),
                          !.content = generate_spell_content(outcome, me.error_payload)]]
       /\ UNCHANGED runs /\ UNCHANGED_env /\ UNCHANGED_db

\* the identifier is returned although the commit failed
GenSpellInsertReturnsId(w) ==
    LET me == wk[w]
        id == NextId(db_spells)
    IN /\ me.pc = "gen_spell_insert"
       /\ \E commit_ok \in BOOLEAN :
             IF ~commit_ok
             THEN /\ wk' = [wk EXCEPT ![w] = GenReturn(me, id, "spell_insert")]
                  /\ UNCHANGED db_spells
             ELSE /\ db_spells' = db_spells \cup
                        {NewSpell(id, me.content, me.error_payload,
                                  me.pr_processing_result, me.repository_id)}
                  /\ wk' = [wk EXCEPT ![w] =
                               GenReturn([me EXCEPT !.generation.created_spell = TRUE],
                                         id, "")]
       /\ UNCHANGED <<db_users, db_repos, db_logs, runs, db_applications>> /\ UNCHANGED_env

\* _create_spell_record (lines 408-440)
GenSpellInsert(w) ==
    LET me == wk[w]
        id == NextId(db_spells)
    IN /\ me.pc = "gen_spell_insert"
       /\ \E commit_ok \in BOOLEAN :
             IF ~commit_ok
             THEN /\ wk' = [wk EXCEPT ![w] = GenReturn(me, 0, "spell_insert")]
                  /\ UNCHANGED db_spells
             ELSE /\ db_spells' = db_spells \cup
                        {NewSpell(id, me.content, me.error_payload,
                                  me.pr_processing_result, me.repository_id)}
                  /\ wk' = [wk EXCEPT ![w] =
                               GenReturn([me EXCEPT !.generation.created_spell = TRUE],
                                         id, "")]
       /\ UNCHANGED <<db_users, db_repos, db_logs, runs, db_applications>> /\ UNCHANGED_env

(***************************************************************************)
(* ExecutionAuditor: create_execution_log, then the response               *)
(***************************************************************************)
\* _find_repo_config_id: the id, or None on no row and on any exception
_find_repo_config_id(repos, repo_name, query_ok) ==
    LET hits == {r \in repos : r.repo_name = repo_name}
    IN IF query_ok /\ hits # {} THEN (CHOOSE r \in hits : TRUE).id ELSE 0

\* lines 500-517 of github_webhook and 204-206 of create_execution_log
AuditLookup(w) ==
    LET me == [wk[w] EXCEPT !.calls.audit = @ + 1]
        full_name == me.payload.repository.full_name
        repo_name == IF full_name = "" THEN "unknown" ELSE full_name
    IN /\ wk[w].pc = "audit"
       /\ \E query_ok \in BOOLEAN :
             wk' = [wk EXCEPT ![w] =
                       [me EXCEPT !.pc = "audit_commit",
                                  !.audit.lookup_failed = ~query_ok,
                                  !.audit.repo_config_id =
                                      _find_repo_config_id(db_repos, repo_name, query_ok)]]
       /\ UNCHANGED runs /\ UNCHANGED_env /\ UNCHANGED_db

\* JSON text is the sequence of its tokens.  An array of numbers:
\* "[", the decimal numerals, "]"
JsonArray(ids) == <<"[">> \o [i \in 1..Len(ids) |-> ToString(ids[i])] \o <<"]">>

\* the numbers of the model, for reading a numeral back
JsonNumbers == 0..99

JsonNumber(numeral) == CHOOSE n \in JsonNumbers : ToString(n) = numeral

JsonLoadsArray(text) ==
    [i \in 1..(Len(text) - 2) |-> JsonNumber(text[i + 1])]

\* a member of a JSON object: key, type of the value, and the value as
\* its tokens
Member(k, t, v) == [k |-> k, t |-> t, v |-> v]

\* a file list that is empty is left out
JsonObjectDropsEmptyList(result) ==
    (IF result.repo # "" THEN <<Member("repo", "string", <<result.repo>>)>> ELSE <<>>)
    \o (IF result.pr_number # 0
        THEN <<Member("pr_number", "number", <<ToString(result.pr_number)>>)>>
        ELSE <<>>)
    \o (IF result.has_files /\ result.files_changed # <<>>
        THEN <<Member("files_changed", "array", result.files_changed)>>
        ELSE <<>>)
    \o <<Member("status", "string", <<result.status>>)>>
    \o (IF result.error # "" THEN <<Member("error", "string", <<result.error>>)>> ELSE <<>>)

\* json.dumps of the dict process_pr_event returned: the keys it holds
JsonObject(result) ==
    (IF result.repo # "" THEN <<Member("repo", "string", <<result.repo>>)>> ELSE <<>>)
    \o (IF result.pr_number # 0
        THEN <<Member("pr_number", "number", <<ToString(result.pr_number)>>)>>
        ELSE <<>>)
    \o (IF result.has_files
        THEN <<Member("files_changed", "array", result.files_changed)>>
        ELSE <<>>)
    \o <<Member("status", "string", <<result.status>>)>>
    \o (IF result.error # "" THEN <<Member("error", "string", <<result.error>>)>> ELSE <<>>)

HasKey(members, key) == \E i \in 1..Len(members) : members[i].k = key

JsonGet(members, key) ==
    members[CHOOSE i \in 1..Len(members) : members[i].k = key].v

\* json.loads of an object text, as the dict process_pr_event builds
JsonLoadsObject(members) ==
    [isnull |-> FALSE,
     status |-> IF HasKey(members, "status") THEN JsonGet(members, "status")[1] ELSE "",
     repo |-> IF HasKey(members, "repo") THEN JsonGet(members, "repo")[1] ELSE "",
     pr_number |-> IF HasKey(members, "pr_number")
                   THEN JsonNumber(JsonGet(members, "pr_number")[1]) ELSE 0,
     has_files |-> HasKey(members, "files_changed"),
     files_changed |-> IF HasKey(members, "files_changed")
                       THEN JsonGet(members, "files_changed") ELSE <<>>,
     error |-> IF HasKey(members, "error") THEN JsonGet(members, "error")[1] ELSE ""]

\* a nullable text column holding JSON
JsonDumps(isnull, value) == [isnull |-> isnull, json |-> value]

\* _parse_log_to_response (app/api/webhook_logs.py lines 54-68): a column
\* that is null or empty reads as [] and None
_parse_log_to_response(log) ==
    [matched_spell_ids |->
        IF ~log.matched_spell_ids.isnull /\ log.matched_spell_ids.json # <<>>
        THEN JsonLoadsArray(log.matched_spell_ids.json)
        ELSE <<>>,
     pr_processing_result |->
        IF ~log.pr_processing_result.isnull /\ log.pr_processing_result.json # <<>>
        THEN JsonLoadsObject(log.pr_processing_result.json)
        ELSE NoResult,
     auto_generated_spell_id |-> log.auto_generated_spell_id,
     status |-> log.status]

\* the row create_execution_log builds (lines 208-255)
LogEntry(id, me) ==
    LET full_name == me.payload.repository.full_name
        result == me.pr_processing_result
        error_message ==
            IF ~result.isnull /\ result.status = "error"
            THEN Message(result.error) ELSE NoMessage
        \* line 523: matched_spells if matched_spells else None
        matched_spell_ids_isnull == me.matched_spells = <<>>
    IN [id |-> id,
        repo_config_id |-> me.audit.repo_config_id,
        repo_name |-> IF full_name = "" THEN "unknown" ELSE full_name,
        pr_number |-> IF me.req.event \in ChangeEventTypes
                      THEN me.payload.pull_request.number ELSE 0,
        event_type |-> me.req.event,
        action |-> me.payload.action,
        status |-> _determine_status(result, me.matched_spells, error_message),
        matched_spell_ids |-> JsonDumps(matched_spell_ids_isnull,
                                        IF matched_spell_ids_isnull THEN <<>>
                                        ELSE JsonArray(me.matched_spells)),
        auto_generated_spell_id |-> me.auto_generated_spell_id,
        error_message |-> error_message,
        pr_processing_result |-> JsonDumps(result.isnull,
                                           IF result.isnull THEN <<>>
                                           ELSE JsonObject(result))]

\* what github_webhook answers whatever create_execution_log did
Respond(me) ==
    [me EXCEPT !.pc = "done",
               !.response = SuccessResponse(me.req.event, me.payload.action,
                                            me.pr_processing_result,
                                            me.matched_spells,
                                            me.auto_generated_spell_id)]

\* a failed commit is not caught and reaches the framework
AuditCommitPropagates(w) ==
    LET me == wk[w]
        id == Len(db_logs) + 1
    IN /\ me.pc = "audit_commit"
       /\ \E commit_ok \in BOOLEAN :
             IF commit_ok
             THEN /\ db_logs' = Append(db_logs, LogEntry(id, me))
                  /\ wk' = [wk EXCEPT ![w] =
                               Respond([me EXCEPT !.audit.outcome = "ok",
                                                  !.audit.log_id = id])]
             ELSE /\ UNCHANGED db_logs
                  /\ wk' = [wk EXCEPT ![w] =
                               [me EXCEPT !.pc = "done",
                                          !.audit.outcome = "failed",
                                          !.audit.raised = TRUE,
                                          !.response = Rejection(500, "Internal Server Error")]]
       /\ UNCHANGED <<db_users, db_repos, db_spells, runs, db_applications>> /\ UNCHANGED_env

\* db.add, commit (lines 257-309) and the return of lines 562-569
AuditCommit(w) ==
    LET me == wk[w]
        id == Len(db_logs) + 1
    IN /\ me.pc = "audit_commit"
       /\ \E commit_ok \in BOOLEAN :
             IF commit_ok
             THEN /\ db_logs' = Append(db_logs, LogEntry(id, me))
                  /\ wk' = [wk EXCEPT ![w] =
                               Respond([me EXCEPT !.audit.outcome = "ok",
                                                  !.audit.log_id = id])]
             ELSE /\ UNCHANGED db_logs
                  /\ wk' = [wk EXCEPT ![w] =
                               Respond([me EXCEPT !.audit.outcome = "failed"])]
       /\ UNCHANGED <<db_users, db_repos, db_spells, runs, db_applications>> /\ UNCHANGED_env

\* the worker takes the next request
Finish(w) ==
    /\ wk[w].pc = "done"
    /\ wk' = [wk EXCEPT ![w] = IdleWorker]
    /\ runs' = [runs EXCEPT ![w] = @ + 1]
    /\ UNCHANGED_env /\ UNCHANGED_db

(***************************************************************************)
(* Specifications                                                          *)
(***************************************************************************)
Pipeline(w) ==
    \/ ProcessPR(w)
    \/ FetchDiff(w)
    \/ MatchStart(w)
    \/ MatchRepoQuery(w)
    \/ MatchAllQuery(w)
    \/ GenInit(w)
    \/ GenRepoLookup(w)
    \/ GenUserLookup(w)
    \/ GenUserInsert(w)
    \/ GenRepoInsert(w)
    \/ GenLLM(w)
    \/ GenSpellInsert(w)
    \/ AuditLookup(w)
    \/ AuditCommit(w)
    \/ Finish(w)

\* one request, of any shape, against any initial store
Next == Receive(1) \/ Pipeline(1)

Spec == Init /\ [][Next]_vars

\* change events handled concurrently by the workers
NextConc == \E w \in Workers : ReceiveChange(w) \/ Pipeline(w)

InitConc == Init /\ webhook_secret = ConfiguredSecret /\ auto_create_enabled

SpecConc == InitConc /\ [][NextConc]_vars

\* change events handled one at a time: the second is taken up when the
\* first has its answer
NextSeq ==
    \/ ReceiveChange(1) \/ Pipeline(1)
    \/ wk[1].pc = "done" /\ (ReceiveChange(2) \/ Pipeline(2))

SpecSeq == InitConc /\ [][NextSeq]_vars

(***************************************************************************)
(* match_spells called on its own, with any error description              *)
(***************************************************************************)
ErrorTypeMembers ==
    {AbsentFld, Fld("null", <<>>), Fld("number", <<>>), Str(<<>>),
     Str(TypeErrorT), Str(ErrorT), Str(PullRequestChangeT)}
MessageMembers ==
    {AbsentFld, Fld("null", <<>>), Str(<<"Cannot", "read", "property">>)}
ContextMembers ==
    {AbsentFld, Fld("number", <<>>), Str(<<"undefined", "property", "of", "x">>)}

\* None, an empty and a non-empty value that is no mapping, and mappings
ErrorPayloads ==
    {[NoPayload EXCEPT !.kind = k] : k \in {"none", "empty", "scalar"}}
    \cup [kind : {"mapping"}, error_type : ErrorTypeMembers,
          message : MessageMembers, context : ContextMembers]

RepositoryContexts ==
    {NoResult, MissingFieldsResult}
    \cup {SuccessResult(n, 7, <<>>) : n \in RepoNames}

InitMatch ==
    /\ webhook_secret = ConfiguredSecret
    /\ auto_create_enabled = FALSE
    /\ \E st \in InitStores :
          /\ db_users = st.users
          /\ db_repos = st.repos
          /\ db_spells = st.spells
    /\ db_logs = <<>>
    /\ \E ep \in ErrorPayloads, ctx \in RepositoryContexts :
          wk = [w \in Workers |->
                  IF w = 1
                  THEN [IdleWorker EXCEPT !.pc = "match", !.caller = "direct",
                                          !.error_payload = ep,
                                          !.pr_processing_result = ctx]
                  ELSE IdleWorker]
    /\ runs = [w \in Workers |-> 0]
    /\ db_applications = <<>>
    /\ ap = NoApply
    /\ probe = NoProbe

NextMatch == MatchStart(1) \/ MatchRepoQuery(1) \/ MatchAllQuery(1)

SpecMatch == InitMatch /\ [][NextMatch]_vars

(***************************************************************************)
(* _determine_status called on its own                                     *)
(***************************************************************************)
StatusOutcomes ==
    {NoResult, MissingFieldsResult}
    \cup {FetchFailedResult(n, 7) : n \in RepoNames}
    \cup {SuccessResult(n, 7, f) : n \in RepoNames, f \in {<<>>, <<"app/main.py">>}}
StatusMessages ==
    {NoMessage, Message(""), Message("Failed to fetch PR diff"),
     Message("Missing repository or PR number in payload")}
StatusMatched == {<<>>, <<1>>, <<2, 1>>}

InitStatus ==
    /\ webhook_secret = ConfiguredSecret
    /\ auto_create_enabled = FALSE
    /\ db_users = {} /\ db_repos = {} /\ db_spells = {} /\ db_logs = <<>>
    /\ wk = [w \in Workers |-> IdleWorker]
    /\ runs = [w \in Workers |-> 0]
    /\ db_applications = <<>>
    /\ ap = NoApply
    /\ \E o \in StatusOutcomes, m \in StatusMatched, e \in StatusMessages :
          probe = [op |-> "status", done |-> FALSE, outcome |-> o, matched |-> m,
                   error_message |-> e, result |-> ""]

DetermineStatus ==
    /\ probe.op = "status" /\ ~probe.done
    /\ probe' = [probe EXCEPT
                    !.done = TRUE,
                    !.result = _determine_status(probe.outcome, probe.matched,
                                                 probe.error_message)]
    /\ UNCHANGED <<webhook_secret, auto_create_enabled, wk, runs, ap>> /\ UNCHANGED_db

NextStatus == DetermineStatus

SpecStatus == InitStatus /\ [][NextStatus]_vars

(***************************************************************************)
(* PatchGeneratorService._validate_patch (app/services/patch_generator.py) *)
(*                                                                         *)
(* A patch is a sequence of lines.  A line is blank (whitespace only), a   *)
(* header "diff --git a/<a> b/<b>", a header without the a/ and b/         *)
(* prefixes, a pre-image line "--- ...", a post-image line "+++ ...", a    *)
(* hunk line "@@ ..." or other text.                                       *)
(***************************************************************************)
PatchPaths == {"app/main.py", "src/index.js"}

PatchLine(tag, path) == [tag |-> tag, a |-> path, b |-> path]

PatchLines ==
    {PatchLine(tag, "") : tag \in {"blank", "diff_bare", "---", "+++", "@@"}}
    \cup {PatchLine("diff", f) : f \in PatchPaths}

\* patch.strip(): leading and trailing whitespace removed
RECURSIVE PatchStripLeft(_)
PatchStripLeft(patch) ==
    IF patch # <<>> /\ Head(patch).tag = "blank"
    THEN PatchStripLeft(Tail(patch))
    ELSE patch

\* .startswith("diff --git")
StartsWithHeaderToken(patch) ==
    patch # <<>> /\ Head(patch).tag \in {"diff", "diff_bare"}

\* "<marker>" in patch
HasMarker(patch, marker) ==
    \E i \in 1..Len(patch) : patch[i].tag = marker

\* re.finditer(r'diff --git a/([\S]+) b/([\S]+)', patch), group(2)
PatchHeaderFiles(patch) ==
    {patch[i].b : i \in {j \in 1..Len(patch) : patch[j].tag = "diff"}}

ToSet(seq) == {seq[i] : i \in 1..Len(seq)}

\* (is_valid, error_message); the message texts of lines 237-267 with
\* their interpolated values
PatchValid == [is_valid |-> TRUE, text |-> "", count |-> 0, limit |-> 0, files |-> {}]
PatchInvalid(text, count, limit, files) ==
    [is_valid |-> FALSE, text |-> text, count |-> count, limit |-> limit,
     files |-> files]

HeaderMessage == "Patch must start with valid git diff header (diff --git)"
MarkersMessage == "Patch must contain valid unified diff markers (+++, ---, @@)"
MaxFilesMessage == "Patch modifies {count} files, exceeds limit of {limit}"
MissingFilesMessage == "Patch contains files not listed in files_touched: {files}"

\* the header paths are not compared with files_touched
_validate_patch_unchecked_paths(patch, files_touched, constraints) ==
    IF ~StartsWithHeaderToken(PatchStripLeft(patch))
    THEN PatchInvalid(HeaderMessage, 0, 0, {})
    ELSE IF ~(HasMarker(patch, "+++") /\ HasMarker(patch, "---") /\ HasMarker(patch, "@@"))
    THEN PatchInvalid(MarkersMessage, 0, 0, {})
    ELSE IF Len(files_touched) > constraints.max_files
    THEN PatchInvalid(MaxFilesMessage, Len(files_touched), constraints.max_files, {})
    ELSE PatchValid

_validate_patch(patch, files_touched, constraints) ==
    LET has_file_markers == HasMarker(patch, "+++") /\ HasMarker(patch, "---")
        has_hunk_markers == HasMarker(patch, "@@")
        missing_files == PatchHeaderFiles(patch) \ ToSet(files_touched)
    IN IF ~StartsWithHeaderToken(PatchStripLeft(patch))
       THEN PatchInvalid(HeaderMessage, 0, 0, {})
       ELSE IF ~(has_file_markers /\ has_hunk_markers)
       THEN PatchInvalid(MarkersMessage, 0, 0, {})
       ELSE IF Len(files_touched) > constraints.max_files
       THEN PatchInvalid(MaxFilesMessage, Len(files_touched), constraints.max_files, {})
       ELSE IF missing_files # {}
       THEN PatchInvalid(MissingFilesMessage, 0, 0, missing_files)
       ELSE PatchValid

(***************************************************************************)
(* _validate_patch called directly on every patch of at most               *)
(* MaxPatchLines lines.                                                    *)
(***************************************************************************)
MaxPatchLines == 5

Patches == UNION {[1..n -> PatchLines] : n \in 0..MaxPatchLines}

FilesTouched ==
    {<<>>, <<"app/main.py">>, <<"app/main.py", "app/main.py">>,
     <<"app/main.py", "src/index.js">>}

\* AdaptationConstraints.max_files (1..10, default 3)
MaxFilesLimits == {1, 2}

InitPatch ==
    /\ webhook_secret = ConfiguredSecret
    /\ auto_create_enabled = FALSE
    /\ db_users = {} /\ db_repos = {} /\ db_spells = {} /\ db_logs = <<>>
    /\ wk = [w \in Workers |-> IdleWorker]
    /\ runs = [w \in Workers |-> 0]
    /\ db_applications = <<>>
    /\ ap = NoApply
    /\ \E patch \in Patches, files_touched \in FilesTouched, max_files \in MaxFilesLimits :
          probe = [op |-> "validate_patch", done |-> FALSE, patch |-> patch,
                   files_touched |-> files_touched,
                   constraints |-> [max_files |-> max_files],
                   result |-> PatchValid]

ValidatePatch ==
    /\ probe.op = "validate_patch" /\ ~probe.done
    /\ probe' = [probe EXCEPT
                    !.done = TRUE,
                    !.result = _validate_patch(probe.patch, probe.files_touched,
                                               probe.constraints)]
    /\ UNCHANGED <<webhook_secret, auto_create_enabled, wk, runs, ap>> /\ UNCHANGED_db

NextPatch == ValidatePatch

SpecPatch == InitPatch /\ [][NextPatch]_vars

(***************************************************************************)
(* POST /api/spells/{spell_id}/apply (app/api/spells.py, apply_spell) with *)
(* PatchGeneratorService.generate_patch and LLMService.generate_patch.     *)
(* The store answers every statement of this handler; the provider may     *)
(* fail in each of its ways.                                               *)
(***************************************************************************)
\* what LLMService.generate_patch gives PatchGeneratorService: a dict with
\* the key "error", a raised exception, or a dict that may lack a member
ProviderReplies ==
    {[kind |-> k, patch |-> <<>>, files_touched |-> <<>>, mentions_config |-> FALSE] :
        k \in {"no_api_key", "unsupported_provider", "error_in_content",
               "missing_field", "timeout", "auth_failure", "upstream_failure"}}
    \cup {[kind |-> "content", patch |-> p, files_touched |-> f, mentions_config |-> FALSE] :
            p \in {<<>>,
                   <<PatchLine("diff", "app/main.py"), PatchLine("---", ""),
                     PatchLine("+++", ""), PatchLine("@@", "")>>,
                   <<PatchLine("diff", "app/main.py"), PatchLine("@@", "")>>,
                   <<PatchLine("diff", "app/main.py"), PatchLine("---", ""),
                     PatchLine("@@", "")>>,
                   <<PatchLine("diff", "app/main.py"), PatchLine("---", ""),
                     PatchLine("+++", "")>>,
                   <<PatchLine("---", ""), PatchLine("+++", ""), PatchLine("@@", "")>>,
                   <<PatchLine("diff", "app/main.py"), PatchLine("---", ""),
                     PatchLine("+++", ""), PatchLine("@@", ""),
                     PatchLine("diff", "src/index.js"), PatchLine("---", ""),
                     PatchLine("+++", ""), PatchLine("@@", "")>>},
            f \in FilesTouched}

\* the provider raised: LLMService re-raises what httpx raised
ProviderRaised(reply) ==
    reply.kind \in {"timeout", "auth_failure", "upstream_failure"}

\* the patch of the reply is returned without being validated
generate_patch_unvalidated(reply, constraints) ==
    IF ProviderRaised(reply)
    THEN [raised |-> "Exception", kind |-> "provider", message |-> reply.kind,
          mentions_config |-> reply.mentions_config]
    ELSE IF reply.kind # "content"
    THEN [raised |-> "ValueError", kind |-> "llm_error", message |-> reply.kind,
          mentions_config |-> reply.kind = "no_api_key"]
    ELSE [raised |-> "", kind |-> "", message |-> "", mentions_config |-> FALSE]

\* PatchGeneratorService.generate_patch from the provider call on: every
\* exception of the call is wrapped in a plain Exception (line 386), an
\* "error" member, a missing member and a rejected patch are ValueErrors
generate_patch(reply, constraints) ==
    LET checked == _validate_patch(reply.patch, reply.files_touched, constraints)
    IN IF ProviderRaised(reply)
       THEN [raised |-> "Exception", kind |-> "provider", message |-> reply.kind,
             mentions_config |-> reply.mentions_config]
       ELSE IF reply.kind # "content"
       THEN [raised |-> "ValueError", kind |-> "llm_error", message |-> reply.kind,
             mentions_config |-> reply.kind = "no_api_key"]
       ELSE IF ~checked.is_valid
       THEN [raised |-> "ValueError", kind |-> "validation", message |-> checked,
             mentions_config |-> FALSE]
       ELSE [raised |-> "", kind |-> "", message |-> "", mentions_config |-> FALSE]

\* the except clauses of apply_spell: status code and detail
ApplyError(outcome) ==
    IF outcome.raised = "ValueError"
    THEN [code |-> 422, detail |-> outcome.message]
    ELSE IF outcome.raised = "TimeoutError"
    THEN [code |-> 504, detail |-> "Patch generation request timed out"]
    ELSE IF outcome.mentions_config
    THEN [code |-> 500, detail |-> "LLM service configuration error"]
    ELSE [code |-> 502, detail |-> outcome.message]

\* a row written by an earlier request; max_files is the constraint of
\* the request that wrote it (not a column)
EarlierApplication ==
    [id |-> 1, spell_id |-> 1, max_files |-> 2, files_touched |-> <<"app/main.py">>,
     patch |-> <<PatchLine("diff", "app/main.py"), PatchLine("---", ""),
                 PatchLine("+++", ""), PatchLine("@@", "")>>]

InitApply ==
    /\ webhook_secret = ConfiguredSecret
    /\ auto_create_enabled = FALSE
    /\ db_users = {Alice} /\ db_repos = {AppRepo} /\ db_spells = {TypeErrorSpell}
    /\ db_logs = <<>>
    /\ wk = [w \in Workers |-> IdleWorker]
    /\ runs = [w \in Workers |-> 0]
    /\ probe = NoProbe
    /\ db_applications \in {<<>>, <<EarlierApplication>>}
    /\ ap = NoApply

\* select(Spell).where(Spell.id == spell_id); 404 when there is none
ApplyLookup ==
    /\ ap = NoApply
    /\ \E spell_id \in {1, 9}, max_files \in MaxFilesLimits, reply \in ProviderReplies :
          LET found == \E s \in db_spells : s.id = spell_id
          IN ap' = [pc |-> IF found THEN "generate" ELSE "done",
                    spell_id |-> spell_id, found |-> found,
                    constraints |-> [max_files |-> max_files],
                    reply |-> reply,
                    outcome |-> [raised |-> "", kind |-> "", message |-> "",
                                 mentions_config |-> FALSE],
                    before |-> db_applications,
                    code |-> IF found THEN 0 ELSE 404,
                    detail |-> IF found THEN "" ELSE "Spell not found",
                    application_id |-> 0,
                    provider_calls |-> 0]
    /\ UNCHANGED <<webhook_secret, auto_create_enabled, wk, runs, probe>>
    /\ UNCHANGED_db

\* generate_patch and the except clauses around it
ApplyGenerate ==
    LET outcome == generate_patch(ap.reply, ap.constraints)
        error == ApplyError(outcome)
        \* LLMService.generate_patch answers without a request when it has
        \* no key or does not know the provider
        requests == IF ap.reply.kind \in {"no_api_key", "unsupported_provider"}
                    THEN 0 ELSE 1
        called == [ap EXCEPT !.provider_calls = @ + requests]
    IN /\ ap.pc = "generate"
       /\ ap' = IF outcome.raised # ""
                THEN [called EXCEPT !.pc = "done", !.outcome = outcome,
                                    !.code = error.code, !.detail = error.detail]
                ELSE [called EXCEPT !.pc = "store", !.outcome = outcome]
       /\ UNCHANGED <<webhook_secret, auto_create_enabled, wk, runs, probe>>
       /\ UNCHANGED_db

\* SpellApplication(...), db.add, commit, refresh and the 200 response
ApplyStore ==
    LET id == Len(db_applications) + 1
    IN /\ ap.pc = "store"
       /\ db_applications' =
             Append(db_applications,
                    [id |-> id, spell_id |-> ap.spell_id,
                     max_files |-> ap.constraints.max_files,
                     files_touched |-> ap.reply.files_touched,
                     patch |-> ap.reply.patch])
       /\ ap' = [ap EXCEPT !.pc = "done", !.code = 200, !.application_id = id]
       /\ UNCHANGED <<webhook_secret, auto_create_enabled, db_users, db_repos,
                      db_spells, db_logs, wk, runs, probe>>

NextApply == ApplyLookup \/ ApplyGenerate \/ ApplyStore

SpecApply == InitApply /\ [][NextApply]_vars

(***************************************************************************)
(* validate_signature called directly (app/api/webhook.py lines 42-74)     *)
(***************************************************************************)
\* the text after the prefix holds a character outside ASCII
NonAsciiHex == <<"non-ascii">>

\* hmac.compare_digest on two str raises TypeError unless both are ASCII;
\* it is reached once the prefix test of line 60 has passed
CompareDigestRaises(signature) ==
    /\ SigTruthy(signature)
    /\ signature.prefix = "sha256="
    /\ signature.hex = NonAsciiHex

SignedPayloads == {"{}", "{\"action\":\"opened\"}", "payload=%7B%7D"}

\* header values: absent, or a prefix followed by the digest of some
\* payload under some key, by that digest in upper case or cut short, by
\* nothing, by text that is no hex, or by text outside ASCII
SignatureHeaders ==
    {SigAbsent}
    \cup {[present |-> TRUE, prefix |-> pre, hex |-> h] :
            pre \in {"", "sha256=", "sha1="},
            h \in {HmacSha256Hex(k, p) : k \in SigningKeys, p \in SignedPayloads}
                  \cup {<<"upper", k, p>> : k \in SigningKeys, p \in SignedPayloads}
                  \cup {<<"cut", k, p>> : k \in SigningKeys, p \in SignedPayloads}
                  \cup {EmptyHex, <<"invalid">>, NonAsciiHex}}

InitSignature ==
    /\ webhook_secret \in SigningKeys
    /\ auto_create_enabled = FALSE
    /\ db_users = {} /\ db_repos = {} /\ db_spells = {} /\ db_logs = <<>>
    /\ wk = [w \in Workers |-> IdleWorker]
    /\ runs = [w \in Workers |-> 0]
    /\ db_applications = <<>>
    /\ ap = NoApply
    /\ \E payload \in SignedPayloads, signature \in SignatureHeaders :
          probe = [op |-> "validate_signature", done |-> FALSE, payload |-> payload,
                   signature |-> signature, raised |-> FALSE, result |-> FALSE]

ValidateSignature ==
    /\ probe.op = "validate_signature" /\ ~probe.done
    /\ probe' = IF CompareDigestRaises(probe.signature)
                THEN [probe EXCEPT !.done = TRUE, !.raised = TRUE]
                ELSE [probe EXCEPT
                        !.done = TRUE,
                        !.result = validate_signature(probe.payload, probe.signature,
                                                      webhook_secret)]
    /\ UNCHANGED <<webhook_secret, auto_create_enabled, wk, runs, ap>> /\ UNCHANGED_db

NextSignature == ValidateSignature

SpecSignature == InitSignature /\ [][NextSignature]_vars

(***************************************************************************)
(* The ranking of match_spells (lines 151-180) on any list of candidates   *)
(***************************************************************************)
PartialSpell ==
    HumanSpell(3, TypeErrorT, <<"read", "property">>, <<"lib">>, 1)
ReviewSpell ==
    HumanSpell(4, ErrorT, <<"Pull", "request", "review">>, <<"lib">>, 0)

RankPool == {TypeErrorSpell, GlobalSpell, PartialSpell, ReviewSpell}

MaxCandidates == 3

\* the rows of a query, in any order the store returns them
CandidateLists ==
    {c \in UNION {[1..n -> RankPool] : n \in 0..MaxCandidates} :
        \A i, j \in 1..Len(c) : i # j => c[i] # c[j]}

\* what _extract_error_characteristics hands to the scoring
RankErrors ==
    [error_type : {<<>>, LowerChars(TypeErrorT), LowerChars(PullRequestChangeT)},
     message : {<<>>, <<"cannot", "read", "property">>},
     context : {<<>>, <<"undefined", "property", "of", "x">>}]

InitRank ==
    /\ webhook_secret = ConfiguredSecret
    /\ auto_create_enabled = FALSE
    /\ db_users = {} /\ db_repos = {} /\ db_spells = {} /\ db_logs = <<>>
    /\ wk = [w \in Workers |-> IdleWorker]
    /\ runs = [w \in Workers |-> 0]
    /\ db_applications = <<>>
    /\ ap = NoApply
    /\ \E e \in RankErrors, c \in CandidateLists :
          probe = [op |-> "rank", done |-> FALSE, error |-> e, candidates |-> c,
                   ranked |-> <<>>]

Rank ==
    /\ probe.op = "rank" /\ ~probe.done
    /\ probe' = [probe EXCEPT
                    !.done = TRUE,
                    !.ranked = RankCandidates(probe.error, probe.candidates)]
    /\ UNCHANGED <<webhook_secret, auto_create_enabled, wk, runs, ap>> /\ UNCHANGED_db

NextRank == Rank

SpecRank == InitRank /\ [][NextRank]_vars


(***************************************************************************)
(* MatcherService._query_candidate_spells on any store, type and hint      *)
(***************************************************************************)
\* lines 271-322; a query that raises is answered with the empty list
_query_candidate_spells(spells, repos, error_type, ctx, repo_query_ok, all_query_ok) ==
    LET hinted == ~ctx.isnull /\ ctx.repo # ""
        repo_spells == RepoCandidates(spells, repos, error_type, ctx.repo)
    IN IF hinted /\ ~repo_query_ok THEN <<>>
       ELSE IF hinted /\ repo_spells # <<>> THEN repo_spells
       ELSE IF ~all_query_ok THEN <<>>
       ELSE TypeCandidates(spells, error_type)

LibRepo == [id |-> 2, repo_name |-> "octo/lib", enabled |-> TRUE, user_id |-> 1]

DashSpell ==
    HumanSpell(5, <<"T","y","p","e","-","E","r","r","o","r">>,
               <<"read", "property">>, <<"lib">>, 2)

CandidatePool == {TypeErrorSpell, GlobalSpell, PartialSpell, ReviewSpell, DashSpell}

\* normalized types: empty, two plain ones, one with an underscore
CandidateTypes ==
    {<<>>, LowerChars(TypeErrorT), Strip(LowerChars(ErrorT)),
     <<"t","y","p","e","_","e","r","r","o","r">>}

CandidateHints ==
    {NoResult} \cup {SuccessResult(n, 7, <<>>) : n \in RepoNames \cup {"octo/new"}}

InitCandidates ==
    /\ webhook_secret = ConfiguredSecret
    /\ auto_create_enabled = FALSE
    /\ db_users = {Alice}
    /\ db_repos = {AppRepo, LibRepo}
    /\ db_spells \in SUBSET CandidatePool
    /\ db_logs = <<>>
    /\ wk = [w \in Workers |-> IdleWorker]
    /\ runs = [w \in Workers |-> 0]
    /\ db_applications = <<>>
    /\ ap = NoApply
    /\ \E t \in CandidateTypes, h \in CandidateHints :
          probe = [op |-> "candidates", done |-> FALSE, error_type |-> t,
                   repository_context |-> h, queries_ok |-> FALSE,
                   candidates |-> <<>>]

QueryCandidates ==
    /\ probe.op = "candidates" /\ ~probe.done
    /\ \E repo_query_ok \in BOOLEAN, all_query_ok \in BOOLEAN :
          probe' = [probe EXCEPT
                       !.done = TRUE,
                       !.queries_ok = repo_query_ok /\ all_query_ok,
                       !.candidates =
                           _query_candidate_spells(db_spells, db_repos,
                               probe.error_type, probe.repository_context,
                               repo_query_ok, all_query_ok)]
    /\ UNCHANGED <<webhook_secret, auto_create_enabled, wk, runs, ap>> /\ UNCHANGED_db

NextCandidates == QueryCandidates

SpecCandidates == InitCandidates /\ [][NextCandidates]_vars


(***************************************************************************)
(* MatcherService._compute_similarity on any error description and record  *)
(***************************************************************************)
\* description and pattern hold stop words and short tokens only
TerseSpell == HumanSpell(6, LowerChars(TypeErrorT), <<"it", "is">>, <<"x">>, 0)
UntaggedSpell == HumanSpell(7, <<>>, <<"read", "property">>, <<"lib">>, 0)
LowerTagSpell ==
    HumanSpell(8, LowerChars(TypeErrorT), <<"Pull", "request", "review">>, <<"lib">>, 0)

\* the tokens of the probed messages and one more
NearSpell ==
    HumanSpell(9, TypeErrorT, <<"cannot", "read", "property">>,
               <<"undefined", "property", "lib">>, 0)

SimilarityPool == RankPool \cup {TerseSpell, UntaggedSpell, LowerTagSpell, NearSpell}

InitSimilarity ==
    /\ webhook_secret = ConfiguredSecret
    /\ auto_create_enabled = FALSE
    /\ db_users = {} /\ db_repos = {} /\ db_spells = {} /\ db_logs = <<>>
    /\ wk = [w \in Workers |-> IdleWorker]
    /\ runs = [w \in Workers |-> 0]
    /\ db_applications = <<>>
    /\ ap = NoApply
    /\ \E e \in RankErrors, s \in SimilarityPool :
          probe = [op |-> "similarity", done |-> FALSE, error |-> e, spell |-> s,
                   score |-> <<0, 1>>]

ComputeSimilarity ==
    /\ probe.op = "similarity" /\ ~probe.done
    /\ probe' = [probe EXCEPT
                    !.done = TRUE,
                    !.score = _compute_similarity(probe.error, probe.spell)]
    /\ UNCHANGED <<webhook_secret, auto_create_enabled, wk, runs, ap>> /\ UNCHANGED_db

NextSimilarity == ComputeSimilarity

SpecSimilarity == InitSimilarity /\ [][NextSimilarity]_vars


(***************************************************************************)
(* PRProcessor._parse_diff on any diff text                                *)
(***************************************************************************)
\* lines of a diff text: headers (same path, renamed, a path with a space,
\* the token run on into "--gitx"), headers cut short, an indented header,
\* and a hunk line
DiffLines ==
    {DiffHeader("app/main.py", "app/main.py"),
     DiffHeader("old.py", "web/ui.js"),
     Line(FALSE, <<Tok("di", "ff"), Tok("--", "git"), Tok("a/", "my"),
                   Tok("fi", "le.py"), Tok("b/", "my"), Tok("fi", "le.py")>>),
     Line(FALSE, <<Tok("di", "ff"), Tok("--", "gitx"), Tok("a/", "x"), Tok("b/", "x")>>),
     Line(FALSE, <<Tok("di", "ff"), Tok("--", "git"), Tok("a/", "x")>>),
     Line(TRUE, <<Tok("di", "ff"), Tok("--", "git"), Tok("a/", "x"), Tok("b/", "x")>>),
     HunkLine}

MaxDiffLines == 3

DiffTexts == UNION {[1..n -> DiffLines] : n \in 0..MaxDiffLines}

InitParse ==
    /\ webhook_secret = ConfiguredSecret
    /\ auto_create_enabled = FALSE
    /\ db_users = {} /\ db_repos = {} /\ db_spells = {} /\ db_logs = <<>>
    /\ wk = [w \in Workers |-> IdleWorker]
    /\ runs = [w \in Workers |-> 0]
    /\ db_applications = <<>>
    /\ ap = NoApply
    /\ \E d \in DiffTexts :
          probe = [op |-> "parse", done |-> FALSE, diff |-> d, files_changed |-> <<>>]

ParseDiff ==
    /\ probe.op = "parse" /\ ~probe.done
    /\ probe' = [probe EXCEPT !.done = TRUE,
                              !.files_changed = _parse_diff(probe.diff)]
    /\ UNCHANGED <<webhook_secret, auto_create_enabled, wk, runs, ap>> /\ UNCHANGED_db

NextParse == ParseDiff

SpecParse == InitParse /\ [][NextParse]_vars


(***************************************************************************)
(* One event-processing run or one patch-application request               *)
(***************************************************************************)
NextCalls ==
    \/ ap = NoApply /\ Next
    \/ wk[1].pc = "idle" /\ runs[1] = 0 /\ NextApply

SpecCalls == Init /\ [][NextCalls]_vars


(***************************************************************************)
(* github_webhook around a diff-processing stage that raises               *)
(***************************************************************************)
\* the except clause of lines 483-497: the exception is logged, the
\* outcome stays None and the matched list empty
ProcessRaises(w) ==
    /\ wk[w].pc = "process"
    /\ wk' = [wk EXCEPT ![w] = [wk[w] EXCEPT !.pc = "audit"]]
    /\ UNCHANGED runs /\ UNCHANGED_env /\ UNCHANGED_db

NextStageRaises == Next \/ ProcessRaises(1)

SpecStageRaises == Init /\ [][NextStageRaises]_vars


(***************************************************************************)
(* _validate_patch under AdaptationConstraints.excluded_patterns           *)
(* (app/models/spell_application.py).  A path is a sequence of pieces so   *)
(* that a glob pattern, whose piece "*" stands for any run of pieces, can  *)
(* be held against it.                                                     *)
(***************************************************************************)
\* default_factory=lambda: ["package.json", "*.lock"]
DefaultExcludedPatterns == <<<<"package.json">>, <<"*", ".lock">>>>

ExclusionPaths == {<<"app/main.py">>, <<"package.json">>, <<"yarn", ".lock">>}

ExclusionLines ==
    {PatchLine(tag, <<>>) : tag \in {"---", "+++", "@@"}}
    \cup {PatchLine("diff", f) : f \in ExclusionPaths}

MaxExclusionLines == 4

ExclusionPatches == UNION {[1..n -> ExclusionLines] : n \in 0..MaxExclusionLines}

ExclusionFilesTouched ==
    {<<>>, <<<<"app/main.py">>>>, <<<<"package.json">>>>,
     <<<<"app/main.py">>, <<"yarn", ".lock">>>>}

InitExclusions ==
    /\ webhook_secret = ConfiguredSecret
    /\ auto_create_enabled = FALSE
    /\ db_users = {} /\ db_repos = {} /\ db_spells = {} /\ db_logs = <<>>
    /\ wk = [w \in Workers |-> IdleWorker]
    /\ runs = [w \in Workers |-> 0]
    /\ db_applications = <<>>
    /\ ap = NoApply
    /\ \E patch \in ExclusionPatches, files_touched \in ExclusionFilesTouched,
          excluded_patterns \in {<<>>, DefaultExcludedPatterns} :
          probe = [op |-> "validate_patch", done |-> FALSE, patch |-> patch,
                   files_touched |-> files_touched,
                   constraints |-> [max_files |-> 3,
                                    excluded_patterns |-> excluded_patterns],
                   result |-> PatchValid]

NextExclusions == ValidatePatch

SpecExclusions == InitExclusions /\ [][NextExclusions]_vars


(***************************************************************************)
(* Properties                                                              *)
(***************************************************************************)
Accepted(me) ==
    /\ webhook_secret # ""
    /\ validate_signature(me.req.body, me.req.sig, webhook_secret)
    /\ me.req.body.utf8
    /\ me.req.body.json_ok

Untouched(me) ==
    /\ me.calls = ZeroCalls
    /\ me.audit.outcome = ""

\* C1: with a secret configured and a signature header present, a header
\* that is malformed or is not sha256= plus the HMAC-SHA256 hex digest of
\* the body is answered 401 and nothing else is done for the request: no
\* diff fetch, no matching, no generation, no audit write.
C1_BadSignatureRejected ==
    \A w \in Workers :
        LET me == wk[w]
        IN (/\ me.pc # "idle"
            /\ me.caller = "webhook"
            /\ webhook_secret # ""
            /\ me.req.sig.present
            /\ ~validate_signature(me.req.body, me.req.sig, webhook_secret))
           => (me.pc = "done" /\ me.response.code = 401 /\ Untouched(me))

\* C2: every request that passes the secret, signature and body-decoding
\* checks is answered 200 with status "success", whatever the decoded JSON
\* value is and whichever stage fails.
C2_AcceptedAlways200 ==
    \A w \in Workers :
        LET me == wk[w]
        IN (me.pc = "done" /\ Accepted(me))
           => (me.response.code = 200 /\ me.response.status = "success")

\* C3: an accepted event whose type is not pull_request (push, for one) is
\* answered 200 with status "success", a null pr_processing and no matched
\* spells, and neither diff fetch nor matching nor generation runs for it.
C3_NonChangeEventSkipsPipeline ==
    \A w \in Workers :
        LET me == wk[w]
        IN (/\ me.pc = "done"
            /\ Accepted(me)
            /\ me.req.event # "pull_request"
            /\ me.response.code = 200)
           => (/\ me.response.status = "success"
               /\ me.response.pr_processing.isnull
               /\ me.response.matched_spells = <<>>
               /\ me.calls.fetch = 0 /\ me.calls.match = 0 /\ me.calls.generate = 0)

FetchUnavailable(me) == me.fetched \notin {"", "ok"}

\* C4: when the diff fetch of a change event comes back unavailable (403
\* rate limit, another non-success status, a network failure), the outcome
\* has status "error", matching and generation do not run, the matched list
\* is empty, the answer is 200 and the audit record written has status
\* "error".
C4_FetchUnavailable ==
    \A w \in Workers :
        LET me == wk[w]
        IN FetchUnavailable(me)
           => (/\ me.pr_processing_result.status = "error"
               /\ me.calls.match = 0 /\ me.calls.generate = 0
               /\ me.matched_spells = <<>>
               /\ me.pc = "done" =>
                     (/\ me.response.code = 200
                      /\ me.response.pr_processing.status = "error"
                      /\ me.response.matched_spells = <<>>)
               /\ me.audit.log_id # 0 => db_logs[me.audit.log_id].status = "error")

C4_Witness ==
    \E w \in Workers :
        /\ wk[w].pc = "done"
        /\ wk[w].fetched = "rate_limited"
        /\ wk[w].audit.log_id # 0

ExpectedResponse(me) ==
    SuccessResponse(me.req.event, me.payload.action, me.pr_processing_result,
                    me.matched_spells, me.auto_generated_spell_id)

StatusIsError ==
    \/ ~probe.error_message.isnull /\ probe.error_message.text # ""
    \/ ~probe.outcome.isnull /\ probe.outcome.status = "error"

\* C6: status derivation is total over (message absent, empty or not;
\* outcome absent, success or error; list empty or not): error iff the
\* message is non-empty or the outcome's status is "error", otherwise
\* partial_success iff the matched list is empty, otherwise success.
C6_StatusDerivation ==
    (probe.op = "status" /\ probe.done)
    => (/\ probe.result \in {"error", "partial_success", "success"}
        /\ probe.result = "error" <=> StatusIsError
        /\ probe.result = "partial_success" <=>
              (~StatusIsError /\ probe.matched = <<>>)
        /\ probe.result = "success" <=>
              (~StatusIsError /\ probe.matched # <<>>))

C6_Witness ==
    /\ probe.op = "status" /\ probe.done
    /\ probe.error_message = Message("")
    /\ probe.outcome.status = "error"
    /\ probe.matched # <<>>
    /\ probe.result = "error"

\* C7: match_spells never raises: null, a value that is no mapping (empty
\* or not), a mapping with members missing, null or not strings, a failing
\* candidate query and a failing scoring all give the empty list.
C7_MatchNeverRaises ==
    \A w \in Workers :
        LET me == wk[w]
        IN (me.pc = "returned" /\ me.caller = "direct")
           => (/\ ~me.match_result.raised
               /\ ExtractRaises(me.error_payload) => me.match_result.ids = <<>>)

Created(me) ==
    \/ me.generation.created_user
    \/ me.generation.created_repo
    \/ me.generation.created_spell

\* C8: a run creates a solution record, a registration or the system
\* account only after match_spells returned the empty list in that run and
\* with auto-generation enabled; with the flag disabled nothing is created.
C8_GenerationOnlyWhenEmptyAndEnabled ==
    /\ \A w \in Workers :
          Created(wk[w])
          => (/\ auto_create_enabled
              /\ wk[w].calls.match = 1
              /\ wk[w].match_result = MatchResult(FALSE, <<>>))
    /\ ~auto_create_enabled
       => (/\ \A s \in db_spells : s.auto_generated = 0
           /\ \A u \in db_users : u.username # SystemUsername
           /\ \A r \in db_repos : \E u \in db_users : u.id = r.user_id)

C8_Witness ==
    \E w \in Workers :
        /\ wk[w].generation.created_user
        /\ wk[w].generation.created_repo
        /\ wk[w].generation.created_spell
        /\ wk[w].pc = "done"

NullGeneration(me) ==
    /\ ~me.generation.raised
    /\ me.auto_generated_spell_id = 0
    /\ me.matched_spells = <<>>
    /\ ~me.generation.created_spell
    /\ me.pc = "done" =>
          (/\ me.response.code = 200
           /\ me.response.auto_generated_spell_id = 0
           /\ me.response.matched_spells = <<>>)

\* C9 as stated: a failure at any step of generate_spell, the provider call
\* included, gives a null identifier, and the answer is 200 with
\* auto_generated_spell_id null and matched_spells empty.
C9_AnyFailureNullIdentifier ==
    \A w \in Workers :
        (wk[w].generation.failed_step # "" \/ wk[w].generation.provider_failed)
        => NullGeneration(wk[w])

\* C9 amended: generate_spell never raises; a failure to resolve or create
\* the registration or the system account, or to persist the record, gives
\* a null identifier and a 200 answer with auto_generated_spell_id null and
\* matched_spells empty.  A failed provider call is no such failure: the
\* templated content is used and the record, when persisted, has the fixed
\* low confidence and its identifier is returned.
C9_StepFailureNullIdentifier ==
    \A w \in Workers :
        LET me == wk[w]
        IN /\ me.generation.failed_step # "" => NullGeneration(me)
           /\ ~me.generation.raised
           /\ (me.generation.provider_failed /\ me.generation.created_spell)
              => (/\ me.auto_generated_spell_id # 0
                  /\ \E s \in db_spells :
                        /\ s.id = me.auto_generated_spell_id
                        /\ s.confidence_score = FallbackConfidence)

C9_Witness ==
    \E w \in Workers :
        /\ wk[w].pc = "done"
        /\ wk[w].generation.failed_step = "spell_insert"
        /\ wk[w].generation.created_repo

\* C10: under any interleaving of events for the same unregistered
\* repository there is at most one registration per full name, and a run
\* whose registration insert hits the uniqueness violation ends generation
\* there: no provider call, no solution record, no identifier, no retry.
C10_OneRegistrationPerName ==
    /\ \A r1 \in db_repos, r2 \in db_repos :
          r1.repo_name = r2.repo_name => r1 = r2
    /\ \A w \in Workers :
          wk[w].generation.race
          => (/\ wk[w].pc \in {"audit", "audit_commit", "done"}
              /\ wk[w].generation.failed_step = "repo_conflict"
              /\ wk[w].repository_id = 0
              /\ wk[w].calls.llm = 0
              /\ ~wk[w].generation.created_spell
              /\ wk[w].auto_generated_spell_id = 0)

C10_Witness ==
    \E w \in Workers, v \in Workers :
        /\ w # v
        /\ wk[w].generation.race
        /\ wk[v].generation.created_repo
        /\ wk[w].pr_processing_result.repo = wk[v].pr_processing_result.repo


PatchWellFormed(patch, files_touched, max_files) ==
    /\ HasMarker(patch, "---") /\ HasMarker(patch, "+++") /\ HasMarker(patch, "@@")
    /\ Len(files_touched) <= max_files
    /\ \A i \in 1..Len(patch) :
          patch[i].tag = "diff" => \E k \in 1..Len(files_touched) : files_touched[k] = patch[i].b

FirstLineIsHeader(patch) ==
    Len(patch) > 0 /\ patch[1].tag \in {"diff", "diff_bare"}

FirstTextLineIsHeader(patch) ==
    \E i \in 1..Len(patch) :
        /\ patch[i].tag \in {"diff", "diff_bare"}
        /\ \A j \in 1..(i - 1) : patch[j].tag = "blank"

C13_ProviderFailuresDistinct ==
    (ap # NoApply /\ ap.pc = "done" /\ ap.found)
    => (/\ ap.reply.kind = "timeout" => ap.code = 504
        /\ ap.reply.kind \in {"no_api_key", "auth_failure"} => ap.code = 500
        /\ ap.reply.kind = "upstream_failure" => ap.code = 502
        /\ ap.outcome.kind = "validation" => ap.code = 422)


C15_SignatureNeverRaises ==
    (probe.op = "validate_signature" /\ probe.done)
    => (~probe.raised /\ probe.result \in BOOLEAN)


C17_ExactlyOneAuditWrite ==
    \A w \in Workers :
        LET me == wk[w]
            passed ==
                /\ webhook_secret # ""
                /\ SigTruthy(me.req.sig)
                /\ me.req.body.utf8 /\ me.req.body.json_ok
        IN (me.pc = "done" /\ me.caller = "webhook" /\ passed)
           => /\ me.calls.audit = 1
              /\ me.audit.outcome # ""
              /\ me.audit.log_id # 0 =>
                    /\ me.response.code = 200
                    /\ _parse_log_to_response(db_logs[me.audit.log_id]).matched_spell_ids
                          = me.response.matched_spells
                    /\ db_logs[me.audit.log_id].auto_generated_spell_id
                          = me.response.auto_generated_spell_id


\* C18: match_spells returns the identifier of every candidate exactly
\* once, ordered by similarity score descending, and candidates with equal
\* scores keep the relative order in which the query returned them.
C18_RankedStable ==
    (probe.op = "rank" /\ probe.done)
    => LET c == probe.candidates
           ids == probe.ranked
           score(i) == _compute_similarity(probe.error, c[i])
           \* where candidate i of the query stands in the answer
           pos(i) == CHOOSE k \in 1..Len(ids) : ids[k] = c[i].id
       IN /\ Len(ids) = Len(c)
          /\ \A i \in 1..Len(c) :
                Cardinality({k \in 1..Len(ids) : ids[k] = c[i].id}) = 1
          /\ \A i, j \in 1..Len(c) :
                /\ ScoreLess(score(j), score(i)) => pos(i) < pos(j)
                /\ (i < j /\ score(i) = score(j)) => pos(i) < pos(j)

\* a later candidate outranks an earlier one, and two others tie
C18_Witness ==
    /\ probe.op = "rank" /\ probe.done
    /\ Len(probe.candidates) = 3
    /\ probe.ranked = <<probe.candidates[3].id, probe.candidates[1].id,
                        probe.candidates[2].id>>
    /\ _compute_similarity(probe.error, probe.candidates[1])
          = _compute_similarity(probe.error, probe.candidates[2])


\* the records whose tag contains the type as a case-insensitive substring
SubstringMatching(spells, error_type) ==
    {s \in spells :
        error_type = <<>>
        \/ Contains(LowerChars(s.error_type), LowerChars(error_type))}

OwnedBy(spells, repos, repo_name) ==
    {s \in spells : \E r \in repos : r.repo_name = repo_name /\ r.id = s.repository_id}

\* C19: with type-matching meaning that the stored tag contains the
\* normalized type as a case-insensitive substring (every record when the
\* type is empty), the candidate set is the type-matching records owned by
\* the hinted repository's registration when there is at least one, and
\* otherwise all type-matching records; the two are never blended.
C19_CandidateSelection ==
    (probe.op = "candidates" /\ probe.done /\ probe.queries_ok)
    => LET matching == SubstringMatching(db_spells, probe.error_type)
           owned == OwnedBy(matching, db_repos, probe.repository_context.repo)
           hinted == ~probe.repository_context.isnull
       IN ToSet(probe.candidates) = IF hinted /\ owned # {} THEN owned ELSE matching


\* token sets of the probed error description and record
ErrorTokens == _extract_keywords(probe.error.message \o probe.error.context)
SpellTokens == _extract_keywords(probe.spell.description \o probe.spell.error_pattern)
Shared == Cardinality(ErrorTokens \cap SpellTokens)
Total == Cardinality(ErrorTokens \cup SpellTokens)

\* the score is the Jaccard coefficient, taken as 0 when a set is empty
ScoreIsJaccard ==
    IF ErrorTokens = {} \/ SpellTokens = {}
    THEN probe.score[1] = 0
    ELSE probe.score[1] * Total = Shared * probe.score[2]

\* the score is the Jaccard coefficient (0 when a set is empty) plus 1/5,
\* and 1 when that exceeds 1
ScoreIsJaccardPlusBoost ==
    LET m == IF ErrorTokens = {} \/ SpellTokens = {} THEN 0 ELSE Shared
        t == IF Total = 0 THEN 1 ELSE Total
    IN IF 5 * m + t >= 5 * t
       THEN probe.score[1] = probe.score[2]
       ELSE probe.score[1] * 5 * t = (5 * m + t) * probe.score[2]

\* C20 as stated: the score is the Jaccard coefficient (0 when either token
\* set is empty) plus 0.2 whenever the tag equals the normalized type, also
\* when the coefficient is 0, clamped to [0, 1].  Stated for the tags that
\* equal the type character by character and for those that differ from it
\* in any case.
C20_BoostWheneverTypesEqual ==
    (probe.op = "similarity" /\ probe.done)
    => /\ probe.spell.error_type = probe.error.error_type
          => ScoreIsJaccardPlusBoost
       /\ LowerChars(probe.spell.error_type) # probe.error.error_type
          => ScoreIsJaccard
       /\ 0 <= probe.score[1] /\ probe.score[1] <= probe.score[2]

\* C20 amended: the score is 0 when either token set is empty; otherwise it
\* is the Jaccard coefficient plus 0.2 whenever the normalized type is not
\* empty and equals the tag in lower case, also when the coefficient is 0,
\* clamped to [0, 1].
C20_Similarity ==
    (probe.op = "similarity" /\ probe.done)
    => /\ IF ErrorTokens = {} \/ SpellTokens = {}
          THEN probe.score[1] = 0
          ELSE IF /\ probe.error.error_type # <<>>
                  /\ LowerChars(probe.spell.error_type) = probe.error.error_type
          THEN ScoreIsJaccardPlusBoost
          ELSE ScoreIsJaccard
       /\ 0 <= probe.score[1] /\ probe.score[1] <= probe.score[2]
       /\ probe.score[2] > 0

\* no shared token, equal types: the score is 1/5
C20_Witness ==
    /\ probe.op = "similarity" /\ probe.done
    /\ ErrorTokens # {} /\ SpellTokens # {} /\ Shared = 0
    /\ LowerChars(probe.spell.error_type) = probe.error.error_type
    /\ probe.score[1] * 5 = probe.score[2]


\* the lower-cased tag of the probed record is the normalized type
TypesMatch ==
    /\ probe.error.error_type # <<>>
    /\ LowerChars(probe.spell.error_type) = probe.error.error_type

\* C21 as stated: the score lies in [0, 1] and is 1 only when the two token
\* sets are identical and the record's tag matches the normalized type.
C21_OneOnlyWhenIdenticalAndTyped ==
    (probe.op = "similarity" /\ probe.done)
    => /\ 0 <= probe.score[1] /\ probe.score[1] <= probe.score[2]
       /\ probe.score[1] = probe.score[2]
          => (ErrorTokens = SpellTokens /\ TypesMatch)

\* C21 amended: the score lies in [0, 1] and is 1 only when the two token
\* sets are identical, or the types match and the shared tokens are at
\* least four fifths of the union.
C21_ScoreRange ==
    (probe.op = "similarity" /\ probe.done)
    => /\ 0 <= probe.score[1] /\ probe.score[1] <= probe.score[2]
       /\ probe.score[2] > 0
       /\ probe.score[1] = probe.score[2]
          => \/ ErrorTokens = SpellTokens /\ ErrorTokens # {}
             \/ TypesMatch /\ 5 * Shared >= 4 * Total

\* a score of 1 for token sets that differ
C21_Witness ==
    /\ probe.op = "similarity" /\ probe.done
    /\ probe.score[1] = probe.score[2]
    /\ ErrorTokens # SpellTokens
    /\ TypesMatch


\* the lines of the probed text that begin with the header token and have a
\* fourth token
HeaderLines ==
    {i \in 1..Len(probe.diff) :
        /\ StartsWithDiffGit(probe.diff[i])
        /\ Len(probe.diff[i].toks) >= 4}

\* C22: the parser returns, in order of appearance and without
\* deduplication, the fourth token less its first two characters of each
\* line that begins with the header token: N such lines give N paths, and
\* a text with none, the empty text included, gives the empty list.
C22_ParseDiff ==
    (probe.op = "parse" /\ probe.done)
    => /\ Len(probe.files_changed) = Cardinality(HeaderLines)
       /\ \A i \in HeaderLines :
             probe.files_changed[Cardinality({j \in HeaderLines : j <= i})]
                = probe.diff[i].toks[4].rest
       /\ HeaderLines = {} => probe.files_changed = <<>>

\* the same path twice, with a line in between that is no header
C22_Witness ==
    /\ probe.op = "parse" /\ probe.done
    /\ Len(probe.diff) = 3
    /\ probe.diff[2] = HunkLine
    /\ probe.files_changed = <<"web/ui.js", "web/ui.js">>


\* C23: each external call is attempted at most once: a run issues at most
\* one diff fetch and at most one content-generation provider request, and
\* a patch-application request at most one provider request.
C23_NoRetry ==
    /\ \A w \in Workers : wk[w].calls.fetch <= 1 /\ wk[w].calls.llm <= 1
    /\ ap # NoApply => ap.provider_calls <= 1
    /\ \A w \in Workers :
          (wk[w].pc = "done" /\ wk[w].fetched \notin {"", "ok"})
          => wk[w].calls.fetch = 1
    /\ (ap # NoApply /\ ap.pc = "done" /\ ap.found /\ ProviderRaised(ap.reply))
       => ap.provider_calls = 1

\* a run whose fetch failed and that went on to its answer
C23_Witness ==
    /\ wk[1].pc = "done"
    /\ wk[1].fetched = "network_error"
    /\ wk[1].calls.fetch = 1
    /\ wk[1].response.code = 200


\* C24: for every matched list (the empty one included) and every
\* diff-processing outcome (null and one without a file list included),
\* the audit record written by the webhook flow, read back through the
\* log-query parser, gives the same list and the same outcome.
C24_AuditRoundTrip ==
    \A w \in Workers :
        LET me == wk[w]
            read == _parse_log_to_response(db_logs[me.audit.log_id])
        IN (me.pc = "done" /\ me.audit.log_id # 0)
           => /\ read.matched_spell_ids = me.matched_spells
              /\ read.pr_processing_result = me.pr_processing_result

\* a record with a matched list and an outcome whose file list is empty
C24_Witness ==
    \E w \in Workers :
        /\ wk[w].pc = "done" /\ wk[w].audit.log_id # 0
        /\ wk[w].matched_spells # <<>>
        /\ wk[w].pr_processing_result.has_files
        /\ wk[w].pr_processing_result.files_changed = <<>>


\* C28: when the diff-processing stage of a change event raises instead of
\* returning an outcome, the audit record written for the event has status
\* error.
C28_StageRaisedStatusError ==
    \A w \in Workers :
        LET me == wk[w]
        IN (/\ me.pc = "done"
            /\ me.req.event \in ChangeEventTypes
            /\ me.pr_processing_result.isnull
            /\ me.audit.log_id # 0)
           => db_logs[me.audit.log_id].status = "error"


\* C25: every record created by generation has provenance generated,
\* human-review false and a repository reference that is the registration
\* named as the event's repository; no record is persisted when no
\* registration was resolved.
C25_GeneratedRecordShape ==
    /\ \A s \in db_spells :
          s.auto_generated = 1
          => /\ s.human_reviewed = 0
             /\ \E r \in db_repos : r.id = s.repository_id
    /\ \A w \in Workers :
          LET me == wk[w]
          IN me.generation.created_spell
             => /\ me.repository_id # 0
                /\ \E s \in db_spells, r \in db_repos :
                      /\ s.id = me.auto_generated_spell_id
                      /\ s.auto_generated = 1 /\ s.human_reviewed = 0
                      /\ s.repository_id = r.id
                      /\ r.id = me.repository_id
                      /\ r.repo_name = me.pr_processing_result.repo
    /\ \A w \in Workers :
          (wk[w].generation.returned /\ wk[w].repository_id = 0)
          => ~wk[w].generation.created_spell /\ wk[w].auto_generated_spell_id = 0

\* a record generated for a repository registered in the same run
C25_Witness ==
    \E w \in Workers :
        /\ wk[w].pc = "done"
        /\ wk[w].generation.created_repo
        /\ wk[w].generation.created_spell
        /\ \E s \in db_spells : s.id = wk[w].auto_generated_spell_id


\* the records generation created for a registration
GeneratedFor(repository_id) ==
    {s \in db_spells : s.auto_generated = 1 /\ s.repository_id = repository_id}

\* C26: under any interleaving of two concurrently processed change events
\* for the same repository, with auto-generation enabled, both diff
\* fetches successful and no stored record passing the candidate filter
\* beforehand, at most one generated record exists for the repository once
\* both runs have finished.
C26_AtMostOneGeneratedConcurrently ==
    (/\ auto_create_enabled
     /\ \A w \in Workers : wk[w].pc = "done" /\ wk[w].fetched = "ok"
     /\ \A v, w \in Workers :
           wk[v].pr_processing_result.repo = wk[w].pr_processing_result.repo
     /\ \A s \in db_spells :
           s.auto_generated = 0
           => ~TypeMatches(s, Strip(LowerChars(PullRequestChangeT))))
    => \A r \in db_repos : Cardinality(GeneratedFor(r.id)) <= 1


\* the second run follows a run that generated a record for the same
\* repository, and its diff fetch succeeded
LaterRunForSameRepository ==
    /\ wk[1].pc = "done" /\ wk[1].generation.created_spell
    /\ wk[2].pc = "done" /\ wk[2].fetched = "ok"
    /\ wk[2].pr_processing_result.repo = wk[1].pr_processing_result.repo

SecondRunMatchesFirstRecord ==
    /\ wk[2].matched_spells # <<>>
    /\ wk[1].auto_generated_spell_id \in ToSet(wk[2].matched_spells)
    /\ wk[2].response.matched_spells = wk[2].matched_spells
    /\ wk[2].calls.generate = 0
    /\ wk[2].auto_generated_spell_id = 0
    /\ Cardinality(GeneratedFor(wk[1].repository_id)) = 1

RECURSIVE GlobMatch(_, _)
GlobMatch(path, pattern) ==
    IF pattern = <<>> THEN path = <<>>
    ELSE IF Head(pattern) = "*"
    THEN GlobMatch(path, Tail(pattern)) \/ (path # <<>> /\ GlobMatch(Tail(path), pattern))
    ELSE path # <<>> /\ Head(path) = Head(pattern) /\ GlobMatch(Tail(path), Tail(pattern))

ExcludedPath(path, excluded_patterns) ==
    \E i \in 1..Len(excluded_patterns) : GlobMatch(path, excluded_patterns[i])

\* C29: no patch the validator accepts declares (in a diff header) or
\* lists (in files_touched) a path that matches one of the request's
\* excluded path patterns.
C29_NoExcludedPathAccepted ==
    (probe.op = "validate_patch" /\ probe.done /\ probe.result.is_valid)
    => \A f \in PatchHeaderFiles(probe.patch) \cup ToSet(probe.files_touched) :
          ~ExcludedPath(f, probe.constraints.excluded_patterns)


\* what match_spells returned to github_webhook in this run: the empty list
\* if it was not called or raised
MatchingReturned(me) ==
    IF me.calls.match = 1 /\ ~me.match_result.raised
    THEN me.match_result.ids ELSE <<>>

\* the generated identifier and the matched list of an answer or of an
\* audit record agree with what matching and generation did in the run
GeneratedIdentifierConsistent(me, generated_id, matched, status) ==
    /\ generated_id # 0
       => /\ me.calls.match = 1
          /\ me.match_result = MatchResult(FALSE, <<>>)
          /\ me.calls.generate = 1
          /\ me.generation.created_spell
          /\ \E s \in db_spells : s.id = generated_id /\ s.auto_generated = 1
          /\ matched = <<generated_id>>
          /\ status = "success"
    /\ generated_id = 0 => matched = MatchingReturned(me)

\* C30: in every answer and every audit record of the webhook flow the
\* generated identifier is set only if matching returned the empty list in
\* that run and generation succeeded, and then the matched list is the
\* one-element list of that identifier and the audit status is success;
\* when the identifier is null the matched list is what matching returned,
\* empty if matching was skipped or raised.
C30_GeneratedIdentifier ==
    \A w \in Workers :
        LET me == wk[w]
            read == _parse_log_to_response(db_logs[me.audit.log_id])
        IN /\ (me.pc = "done" /\ me.caller = "webhook" /\ me.response.code = 200)
              => GeneratedIdentifierConsistent(me, me.response.auto_generated_spell_id,
                                               me.response.matched_spells, "success")
           /\ (me.pc = "done" /\ me.audit.log_id # 0)
              => GeneratedIdentifierConsistent(me, read.auto_generated_spell_id,
                                               read.matched_spell_ids, read.status)

\* an answered and audited run that generated a record
C30_Witness ==
    \E w \in Workers :
        /\ wk[w].pc = "done" /\ wk[w].audit.log_id # 0
        /\ wk[w].response.code = 200
        /\ wk[w].response.auto_generated_spell_id # 0
        /\ db_logs[wk[w].audit.log_id].auto_generated_spell_id
              = wk[w].response.auto_generated_spell_id

====
